---- MODULE Spec2Model ----
(***************************************************************************)
(* Model of the file intake pipeline of AgenticCFO:                        *)
(*   FileParser -> TemplateDetector -> ColumnMapper -> DQValidator,        *)
(* driven by DatasetService.process_file_upload.                           *)
(***************************************************************************)
EXTENDS Integers, Sequences, FiniteSets, TLC

(***************************************************************************)
(* IEEE-754 binary64 values (non-negative): the detector's scores are      *)
(* Python floats.  A value is zero or a 53-bit mantissa held in two limbs, *)
(* M = hi * 2^26 + lo with 2^26 <= hi < 2^27 and 0 <= lo < 2^26, and an    *)
(* exponent e: value = M * 2^(e - 52).                                     *)
(***************************************************************************)
LimbBits == 26

RECURSIVE Pow2(_)
Pow2(n) == IF n = 0 THEN 1 ELSE 2 * Pow2(n - 1)

Limb == Pow2(LimbBits)

DZero == [zero |-> TRUE, e |-> 0, hi |-> 0, lo |-> 0]

\* The exact bits of a sum before rounding: limbs h, l, an extension limb x of
\* LimbBits further bits, and a sticky flag s for non-zero bits below x.
\* ShiftBits divides by p = 2^d (d < LimbBits, q = 2^(LimbBits - d)), keeping
\* what falls off in x and s.
ShiftBits(v, p, q) ==
    [h |-> v.h \div p,
     l |-> (v.h % p) * q + v.l \div p,
     x |-> (v.l % p) * q + v.x \div p,
     s |-> v.s \/ (v.x % p) # 0]

RECURSIVE ShiftRight(_, _)
ShiftRight(v, d) ==
    IF d = 0 THEN v
    ELSE IF d >= LimbBits
    THEN ShiftRight([h |-> 0, l |-> v.h, x |-> v.l, s |-> v.s \/ v.x # 0], d - LimbBits)
    ELSE ShiftBits(v, Pow2(d), Pow2(LimbBits - d))

\* Round-to-nearest, ties-to-even, of normalized exact bits v with exponent e.
RoundUp(v) ==
    \/ 2 * v.x > Limb
    \/ 2 * v.x = Limb /\ (v.s \/ v.l % 2 = 1)

RoundCarry(h, l, e) ==
    IF l < Limb THEN [zero |-> FALSE, e |-> e, hi |-> h, lo |-> l]
    ELSE IF h + 1 = 2 * Limb THEN [zero |-> FALSE, e |-> e + 1, hi |-> Limb, lo |-> 0]
    ELSE [zero |-> FALSE, e |-> e, hi |-> h + 1, lo |-> 0]

RoundNearestEven(v, e) == RoundCarry(v.h, IF RoundUp(v) THEN v.l + 1 ELSE v.l, e)

\* x + y in binary64 (Python float +): exact sum, then one rounding.
DAddSum(e, hsum, l, x, s) ==
    IF hsum >= 2 * Limb
    THEN RoundNearestEven(ShiftRight([h |-> hsum, l |-> l, x |-> x, s |-> s], 1), e + 1)
    ELSE RoundNearestEven([h |-> hsum, l |-> l, x |-> x, s |-> s], e)

DAddShifted(big, sh) ==
    DAddSum(big.e, big.hi + sh.h + (big.lo + sh.l) \div Limb, (big.lo + sh.l) % Limb,
            sh.x, sh.s)

DAddOrdered(big, small) ==
    DAddShifted(big, ShiftRight([h |-> small.hi, l |-> small.lo, x |-> 0, s |-> FALSE],
                                big.e - small.e))

DAdd(x, y) ==
    IF x.zero THEN y
    ELSE IF y.zero THEN x
    ELSE IF x.e >= y.e THEN DAddOrdered(x, y)
    ELSE DAddOrdered(y, x)

\* x < y on binary64 values.
DLess(x, y) ==
    IF y.zero THEN FALSE
    ELSE IF x.zero THEN TRUE
    ELSE IF x.e # y.e THEN x.e < y.e
    ELSE IF x.hi # y.hi THEN x.hi < y.hi
    ELSE x.lo < y.lo

DLeq(x, y) == ~DLess(y, x)

\* Python's min(x, y): y when y < x, else x.
DMin(x, y) == IF DLess(y, x) THEN y ELSE x

\* Python's max(x, y): y when y > x, else x.
DMax(x, y) == IF DLess(x, y) THEN y ELSE x

\* The binary64 value of the decimal literal num/den (0 < num/den <= 1, den <= 100),
\* correctly rounded as Python rounds a float literal: long division in chunks of
\* 13 bits, two chunks to a limb, then round-to-nearest-even on the remainder.
RECURSIVE LitExp(_, _, _)
LitExp(num, den, k) == IF num * Pow2(k) >= den THEN k ELSE LitExp(num, den, k + 1)

LitChunk(r, den) == [q |-> (r * Pow2(13)) \div den, r |-> (r * Pow2(13)) % den]

LitJoin(first, second) == [q |-> first.q * Pow2(13) + second.q, r |-> second.r]

LitNext(first, den) == LitJoin(first, LitChunk(first.r, den))

LitLimb(r, den) == LitNext(LitChunk(r, den), den)

LitRound(k, den, high, low) ==
    RoundNearestEven([h |-> Limb + high.q, l |-> low.q,
                      x |-> ((2 * low.r) \div den) * (Limb \div 2),
                      s |-> (2 * low.r) % den # 0], 0 - k)

LitLow(k, den, high) == LitRound(k, den, high, LitLimb(high.r, den))

LitFrom(num, den, k) == LitLow(k, den, LitLimb(num * Pow2(k) - den, den))

DLit(num, den) == LitFrom(num, den, LitExp(num, den, 0))

(***************************************************************************)
(* TemplateDetector: scoring of the five template types from the analysis  *)
(* of a table (template_detector.py).  An analysis holds the index lists   *)
(* date_columns, numeric_columns, text_columns, the five pattern flags,    *)
(* num_rows and num_columns.                                               *)
(***************************************************************************)
NoneValue == "None"

W010 == DLit(1, 10)
W015 == DLit(3, 20)
W020 == DLit(1, 5)
W025 == DLit(1, 4)
W030 == DLit(3, 10)
W035 == DLit(7, 20)
W040 == DLit(2, 5)
DOne == DLit(1, 1)

\* score += w when cond holds
AddIf(score, cond, w) == IF cond THEN DAdd(score, w) ELSE score

\* BankStatement scored with 0.2 instead of 0.3 for the date column.
_score_bank_statement_low_date(analysis) ==
    IF Len(analysis.date_columns) = 0 THEN DZero
    ELSE LET s1 == DAdd(DZero, W020)
             s2 == AddIf(s1, analysis.has_sequential_dates, W020)
             s3 == AddIf(s2, analysis.has_running_balance, W020)
             s4 == AddIf(s3, Len(analysis.text_columns) >= 1, W010)
             s5 == AddIf(s4, 1 <= Len(analysis.numeric_columns)
                             /\ Len(analysis.numeric_columns) <= 3, W010)
             s6 == AddIf(s5, 3 <= analysis.num_columns /\ analysis.num_columns <= 6, W010)
         IN  DMin(s6, DOne)

_score_bank_statement(analysis) ==
    IF Len(analysis.date_columns) = 0 THEN DZero
    ELSE LET s1 == DAdd(DZero, W030)
             s2 == AddIf(s1, analysis.has_sequential_dates, W020)
             s3 == AddIf(s2, analysis.has_running_balance, W020)
             s4 == AddIf(s3, Len(analysis.text_columns) >= 1, W010)
             s5 == AddIf(s4, 1 <= Len(analysis.numeric_columns)
                             /\ Len(analysis.numeric_columns) <= 3, W010)
             s6 == AddIf(s5, 3 <= analysis.num_columns /\ analysis.num_columns <= 6, W010)
         IN  DMin(s6, DOne)

_score_trial_balance(analysis) ==
    IF analysis.has_sequential_dates THEN DZero
    ELSE LET s1 == AddIf(DZero, analysis.has_account_numbers, W030)
             s2 == AddIf(s1, analysis.has_debit_credit, W040)
             s3 == AddIf(s2, Len(analysis.text_columns) >= 1, W015)
             s4 == AddIf(s3, 3 <= analysis.num_columns /\ analysis.num_columns <= 5, W015)
         IN  DMin(s4, DOne)

\* AP_OpenItems scored with AR_Aging's bonus for two numeric columns.
_score_ap_items_low_numeric(analysis) ==
    LET s1 == AddIf(DZero, Len(analysis.date_columns) >= 1, W020)
        s2 == AddIf(s1, Len(analysis.text_columns) >= 1, W025)
        s3 == AddIf(s2, analysis.has_aging_buckets, W030)
        s4 == AddIf(s3, Len(analysis.numeric_columns) >= 2, W010)
        s5 == AddIf(s4, 4 <= analysis.num_columns /\ analysis.num_columns <= 8, W010)
    IN  DMin(s5, DOne)

_score_ap_items(analysis) ==
    LET s1 == AddIf(DZero, Len(analysis.date_columns) >= 1, W020)
        s2 == AddIf(s1, Len(analysis.text_columns) >= 1, W025)
        s3 == AddIf(s2, analysis.has_aging_buckets, W030)
        s4 == AddIf(s3, Len(analysis.numeric_columns) >= 2, W015)
        s5 == AddIf(s4, 4 <= analysis.num_columns /\ analysis.num_columns <= 8, W010)
    IN  DMin(s5, DOne)

\* AR_Aging scored with the weights of AP_OpenItems.
_score_ar_aging_as_ap(analysis) == _score_ap_items(analysis)

_score_ar_aging(analysis) ==
    LET s1 == AddIf(DZero, Len(analysis.date_columns) >= 1, W020)
        s2 == AddIf(s1, Len(analysis.text_columns) >= 1, W025)
        s3 == AddIf(s2, analysis.has_aging_buckets, W035)
        s4 == AddIf(s3, Len(analysis.numeric_columns) >= 2, W010)
        s5 == AddIf(s4, 4 <= analysis.num_columns /\ analysis.num_columns <= 8, W010)
    IN  DMin(s5, DOne)

HighRowCount == 100

_score_pos_sales(analysis) ==
    IF Len(analysis.date_columns) = 0 THEN DZero
    ELSE LET s1 == DAdd(DZero, W020)
             s2 == AddIf(s1, Len(analysis.text_columns) >= 2, W020)
             s3 == AddIf(s2, Len(analysis.numeric_columns) >= 2, W020)
             s4 == AddIf(s3, analysis.num_rows > HighRowCount, W020)
             s5 == AddIf(s4, 4 <= analysis.num_columns /\ analysis.num_columns <= 10, W020)
         IN  DMin(s5, DOne)

\* The scores dict of detect_from_dataframe, in its insertion order.
TemplateOrder == <<"BankStatement", "TrialBalance", "AP_OpenItems", "AR_Aging", "POS_Sales">>

TemplateTypes == {TemplateOrder[i] : i \in 1..Len(TemplateOrder)}

Scores(analysis) ==
    [t \in TemplateTypes |->
        CASE t = "BankStatement" -> _score_bank_statement(analysis)
          [] t = "TrialBalance"  -> _score_trial_balance(analysis)
          [] t = "AP_OpenItems"  -> _score_ap_items(analysis)
          [] t = "AR_Aging"      -> _score_ar_aging(analysis)
          [] t = "POS_Sales"     -> _score_pos_sales(analysis)]

\* Python's max(scores.items(), key=score): the first item, in insertion order,
\* that no later item strictly exceeds replaces the running best only when greater.
RECURSIVE MaxItemFrom(_, _, _)
MaxItemFrom(scores, i, best) ==
    IF i > Len(TemplateOrder) THEN best
    ELSE IF DLess(scores[best], scores[TemplateOrder[i]])
         THEN MaxItemFrom(scores, i + 1, TemplateOrder[i])
         ELSE MaxItemFrom(scores, i + 1, best)

\* A maximum that keeps the last of several equal best items.
MaxItemLast(scores) ==
    TemplateOrder[CHOOSE i \in 1..Len(TemplateOrder) :
        /\ \A j \in 1..Len(TemplateOrder) :
              ~DLess(scores[TemplateOrder[i]], scores[TemplateOrder[j]])
        /\ \A j \in (i + 1)..Len(TemplateOrder) :
              DLess(scores[TemplateOrder[j]], scores[TemplateOrder[i]])]

MaxItem(scores) == MaxItemFrom(scores, 2, TemplateOrder[1])

ConfidenceThreshold == DLit(3, 10)

\* best_match = max(...); template_type, confidence = best_match
ItemOf(scores, template_type) ==
    [template_type |-> template_type, confidence |-> scores[template_type]]

BestItem(scores) == ItemOf(scores, MaxItem(scores))

\* Lines 68-71: below the threshold nothing is detected.
ApplyThreshold(item) ==
    IF DLess(item.confidence, ConfidenceThreshold)
    THEN [template_type |-> NoneValue, confidence |-> DZero]
    ELSE item

\* BestMatch with the confidence threshold forgotten.
BestMatchNoThreshold(analysis) == BestItem(Scores(analysis))

\* Lines 54-71 of detect_from_dataframe: score, pick the best, apply the threshold.
BestMatch(analysis) == ApplyThreshold(BestItem(Scores(analysis)))

\* detect_from_dataframe, given the analysis of the table (lines 48-71).
detect_from_analysis(a) ==
    IF a.num_rows = 0 \/ a.num_columns = 0
    THEN [template_type |-> NoneValue, confidence |-> DZero]
    ELSE BestMatch(a)

(***************************************************************************)
(* ColumnMapper (column_mapper.py).  A column name is a sequence of        *)
(* one-character strings, so that normalisation, substring tests and the   *)
(* difflib similarity ratio are computed, not assumed.                     *)
(***************************************************************************)
BankStatementSchema == <<
    [field |-> "transaction_date", patterns |-> <<
          <<"d", "a", "t", "e">>,
          <<"t", "r", "a", "n", "s", " ", "d", "a", "t", "e">>,
          <<"t", "r", "a", "n", "s", "a", "c", "t", "i", "o", "n", " ", "d", "a", "t", "e">>,
          <<"p", "o", "s", "t", "i", "n", "g", " ", "d", "a", "t", "e">>,
          <<"v", "a", "l", "u", "e", " ", "d", "a", "t", "e">>,
          <<"p", "o", "s", "t", " ", "d", "a", "t", "e">>,
          <<"d", "t">> >>],
    [field |-> "description", patterns |-> <<
          <<"d", "e", "s", "c", "r", "i", "p", "t", "i", "o", "n">>,
          <<"d", "e", "s", "c">>,
          <<"n", "a", "r", "r", "a", "t", "i", "v", "e">>,
          <<"d", "e", "t", "a", "i", "l", "s">>,
          <<"t", "r", "a", "n", "s", "a", "c", "t", "i", "o", "n", " ", "d", "e", "t", "a", "i", "l", "s">>,
          <<"m", "e", "m", "o">>,
          <<"r", "e", "f", "e", "r", "e", "n", "c", "e">> >>],
    [field |-> "debit_amount", patterns |-> <<
          <<"d", "e", "b", "i", "t">>,
          <<"w", "i", "t", "h", "d", "r", "a", "w", "a", "l">>,
          <<"w", "i", "t", "h", "d", "r", "a", "w", "a", "l", "s">>,
          <<"o", "u", "t", "g", "o", "i", "n", "g">>,
          <<"p", "a", "y", "m", "e", "n", "t", "s">>,
          <<"d", "r">>,
          <<"a", "m", "o", "u", "n", "t", " ", "d", "r">>,
          <<"d", "e", "b", "i", "t", " ", "a", "m", "o", "u", "n", "t">> >>],
    [field |-> "credit_amount", patterns |-> <<
          <<"c", "r", "e", "d", "i", "t">>,
          <<"d", "e", "p", "o", "s", "i", "t">>,
          <<"d", "e", "p", "o", "s", "i", "t", "s">>,
          <<"i", "n", "c", "o", "m", "i", "n", "g">>,
          <<"r", "e", "c", "e", "i", "p", "t", "s">>,
          <<"c", "r">>,
          <<"a", "m", "o", "u", "n", "t", " ", "c", "r">>,
          <<"c", "r", "e", "d", "i", "t", " ", "a", "m", "o", "u", "n", "t">> >>],
    [field |-> "balance", patterns |-> <<
          <<"b", "a", "l", "a", "n", "c", "e">>,
          <<"r", "u", "n", "n", "i", "n", "g", " ", "b", "a", "l", "a", "n", "c", "e">>,
          <<"e", "n", "d", "i", "n", "g", " ", "b", "a", "l", "a", "n", "c", "e">>,
          <<"c", "l", "o", "s", "i", "n", "g", " ", "b", "a", "l", "a", "n", "c", "e">>,
          <<"b", "a", "l">>,
          <<"a", "v", "a", "i", "l", "a", "b", "l", "e", " ", "b", "a", "l", "a", "n", "c", "e">> >>],
    [field |-> "reference_number", patterns |-> <<
          <<"r", "e", "f", "e", "r", "e", "n", "c", "e">>,
          <<"r", "e", "f">>,
          <<"c", "h", "e", "c", "k", " ", "n", "u", "m", "b", "e", "r">>,
          <<"c", "h", "e", "q", "u", "e", " ", "n", "u", "m", "b", "e", "r">>,
          <<"t", "r", "a", "n", "s", "a", "c", "t", "i", "o", "n", " ", "i", "d">>,
          <<"t", "r", "a", "n", "s", " ", "i", "d">> >>]
>>

TrialBalanceSchema == <<
    [field |-> "account_code", patterns |-> <<
          <<"a", "c", "c", "o", "u", "n", "t">>,
          <<"a", "c", "c", "o", "u", "n", "t", " ", "n", "u", "m", "b", "e", "r">>,
          <<"a", "c", "c", "o", "u", "n", "t", " ", "n", "o">>,
          <<"g", "l", " ", "a", "c", "c", "o", "u", "n", "t">>,
          <<"g", "l", " ", "c", "o", "d", "e">>,
          <<"a", "c", "c", "t">> >>],
    [field |-> "account_name", patterns |-> <<
          <<"a", "c", "c", "o", "u", "n", "t", " ", "n", "a", "m", "e">>,
          <<"a", "c", "c", "o", "u", "n", "t", " ", "d", "e", "s", "c", "r", "i", "p", "t", "i", "o", "n">>,
          <<"d", "e", "s", "c", "r", "i", "p", "t", "i", "o", "n">>,
          <<"n", "a", "m", "e">>,
          <<"g", "l", " ", "n", "a", "m", "e">> >>],
    [field |-> "debit_amount", patterns |-> <<
          <<"d", "e", "b", "i", "t">>,
          <<"d", "r">>,
          <<"d", "e", "b", "i", "t", " ", "b", "a", "l", "a", "n", "c", "e">>,
          <<"d", "e", "b", "i", "t", " ", "a", "m", "o", "u", "n", "t">> >>],
    [field |-> "credit_amount", patterns |-> <<
          <<"c", "r", "e", "d", "i", "t">>,
          <<"c", "r">>,
          <<"c", "r", "e", "d", "i", "t", " ", "b", "a", "l", "a", "n", "c", "e">>,
          <<"c", "r", "e", "d", "i", "t", " ", "a", "m", "o", "u", "n", "t">> >>],
    [field |-> "balance", patterns |-> <<
          <<"b", "a", "l", "a", "n", "c", "e">>,
          <<"e", "n", "d", "i", "n", "g", " ", "b", "a", "l", "a", "n", "c", "e">>,
          <<"n", "e", "t", " ", "b", "a", "l", "a", "n", "c", "e">> >>]
>>

APOpenItemsSchema == <<
    [field |-> "vendor_name", patterns |-> <<
          <<"v", "e", "n", "d", "o", "r">>,
          <<"v", "e", "n", "d", "o", "r", " ", "n", "a", "m", "e">>,
          <<"s", "u", "p", "p", "l", "i", "e", "r">>,
          <<"s", "u", "p", "p", "l", "i", "e", "r", " ", "n", "a", "m", "e">>,
          <<"p", "a", "y", "e", "e">> >>],
    [field |-> "vendor_code", patterns |-> <<
          <<"v", "e", "n", "d", "o", "r", " ", "c", "o", "d", "e">>,
          <<"v", "e", "n", "d", "o", "r", " ", "i", "d">>,
          <<"v", "e", "n", "d", "o", "r", " ", "n", "u", "m", "b", "e", "r">>,
          <<"s", "u", "p", "p", "l", "i", "e", "r", " ", "c", "o", "d", "e">>,
          <<"s", "u", "p", "p", "l", "i", "e", "r", " ", "i", "d">> >>],
    [field |-> "invoice_number", patterns |-> <<
          <<"i", "n", "v", "o", "i", "c", "e">>,
          <<"i", "n", "v", "o", "i", "c", "e", " ", "n", "u", "m", "b", "e", "r">>,
          <<"i", "n", "v", "o", "i", "c", "e", " ", "n", "o">>,
          <<"i", "n", "v", " ", "n", "o">>,
          <<"d", "o", "c", "u", "m", "e", "n", "t", " ", "n", "u", "m", "b", "e", "r">> >>],
    [field |-> "invoice_date", patterns |-> <<
          <<"i", "n", "v", "o", "i", "c", "e", " ", "d", "a", "t", "e">>,
          <<"i", "n", "v", " ", "d", "a", "t", "e">>,
          <<"d", "o", "c", "u", "m", "e", "n", "t", " ", "d", "a", "t", "e">>,
          <<"d", "a", "t", "e">> >>],
    [field |-> "due_date", patterns |-> <<
          <<"d", "u", "e", " ", "d", "a", "t", "e">>,
          <<"p", "a", "y", "m", "e", "n", "t", " ", "d", "u", "e">>,
          <<"m", "a", "t", "u", "r", "i", "t", "y", " ", "d", "a", "t", "e">> >>],
    [field |-> "amount", patterns |-> <<
          <<"a", "m", "o", "u", "n", "t">>,
          <<"i", "n", "v", "o", "i", "c", "e", " ", "a", "m", "o", "u", "n", "t">>,
          <<"t", "o", "t", "a", "l">>,
          <<"o", "p", "e", "n", " ", "a", "m", "o", "u", "n", "t">>,
          <<"o", "u", "t", "s", "t", "a", "n", "d", "i", "n", "g">> >>],
    [field |-> "currency", patterns |-> <<
          <<"c", "u", "r", "r", "e", "n", "c", "y">>,
          <<"c", "u", "r", "r">>,
          <<"c", "c", "y">> >>]
>>

ARAgingSchema == <<
    [field |-> "customer_name", patterns |-> <<
          <<"c", "u", "s", "t", "o", "m", "e", "r">>,
          <<"c", "u", "s", "t", "o", "m", "e", "r", " ", "n", "a", "m", "e">>,
          <<"c", "l", "i", "e", "n", "t">>,
          <<"c", "l", "i", "e", "n", "t", " ", "n", "a", "m", "e">> >>],
    [field |-> "customer_code", patterns |-> <<
          <<"c", "u", "s", "t", "o", "m", "e", "r", " ", "c", "o", "d", "e">>,
          <<"c", "u", "s", "t", "o", "m", "e", "r", " ", "i", "d">>,
          <<"c", "u", "s", "t", "o", "m", "e", "r", " ", "n", "u", "m", "b", "e", "r">>,
          <<"c", "l", "i", "e", "n", "t", " ", "c", "o", "d", "e">> >>],
    [field |-> "invoice_number", patterns |-> <<
          <<"i", "n", "v", "o", "i", "c", "e">>,
          <<"i", "n", "v", "o", "i", "c", "e", " ", "n", "u", "m", "b", "e", "r">>,
          <<"i", "n", "v", "o", "i", "c", "e", " ", "n", "o">>,
          <<"i", "n", "v", " ", "n", "o">> >>],
    [field |-> "invoice_date", patterns |-> <<
          <<"i", "n", "v", "o", "i", "c", "e", " ", "d", "a", "t", "e">>,
          <<"i", "n", "v", " ", "d", "a", "t", "e">>,
          <<"d", "a", "t", "e">> >>],
    [field |-> "due_date", patterns |-> <<
          <<"d", "u", "e", " ", "d", "a", "t", "e">>,
          <<"p", "a", "y", "m", "e", "n", "t", " ", "d", "u", "e">> >>],
    [field |-> "amount", patterns |-> <<
          <<"a", "m", "o", "u", "n", "t">>,
          <<"i", "n", "v", "o", "i", "c", "e", " ", "a", "m", "o", "u", "n", "t">>,
          <<"t", "o", "t", "a", "l">>,
          <<"o", "u", "t", "s", "t", "a", "n", "d", "i", "n", "g">> >>],
    [field |-> "current", patterns |-> <<
          <<"c", "u", "r", "r", "e", "n", "t">>,
          <<"0", "-", "3", "0">>,
          <<"n", "o", "t", " ", "d", "u", "e">> >>],
    [field |-> "days_30", patterns |-> <<
          <<"3", "0", " ", "d", "a", "y", "s">>,
          <<"3", "1", "-", "6", "0">>,
          <<"1", "-", "3", "0">> >>],
    [field |-> "days_60", patterns |-> <<
          <<"6", "0", " ", "d", "a", "y", "s">>,
          <<"6", "1", "-", "9", "0">>,
          <<"3", "1", "-", "6", "0">> >>],
    [field |-> "days_90_plus", patterns |-> <<
          <<"9", "0", "+", " ", "d", "a", "y", "s">>,
          <<"o", "v", "e", "r", " ", "9", "0">>,
          <<">", "9", "0">>,
          <<"9", "0", "+">> >>]
>>

POSSalesSchema == <<
    [field |-> "transaction_date", patterns |-> <<
          <<"d", "a", "t", "e">>,
          <<"s", "a", "l", "e", " ", "d", "a", "t", "e">>,
          <<"t", "r", "a", "n", "s", " ", "d", "a", "t", "e">>,
          <<"t", "r", "a", "n", "s", "a", "c", "t", "i", "o", "n", " ", "d", "a", "t", "e">> >>],
    [field |-> "store_code", patterns |-> <<
          <<"s", "t", "o", "r", "e">>,
          <<"s", "t", "o", "r", "e", " ", "c", "o", "d", "e">>,
          <<"s", "t", "o", "r", "e", " ", "n", "u", "m", "b", "e", "r">>,
          <<"l", "o", "c", "a", "t", "i", "o", "n">>,
          <<"s", "t", "o", "r", "e", " ", "i", "d">> >>],
    [field |-> "product_code", patterns |-> <<
          <<"p", "r", "o", "d", "u", "c", "t">>,
          <<"p", "r", "o", "d", "u", "c", "t", " ", "c", "o", "d", "e">>,
          <<"s", "k", "u">>,
          <<"i", "t", "e", "m", " ", "c", "o", "d", "e">>,
          <<"i", "t", "e", "m", " ", "n", "u", "m", "b", "e", "r">> >>],
    [field |-> "product_name", patterns |-> <<
          <<"p", "r", "o", "d", "u", "c", "t", " ", "n", "a", "m", "e">>,
          <<"i", "t", "e", "m", " ", "n", "a", "m", "e">>,
          <<"d", "e", "s", "c", "r", "i", "p", "t", "i", "o", "n">>,
          <<"i", "t", "e", "m", " ", "d", "e", "s", "c">> >>],
    [field |-> "quantity", patterns |-> <<
          <<"q", "u", "a", "n", "t", "i", "t", "y">>,
          <<"q", "t", "y">>,
          <<"u", "n", "i", "t", "s">>,
          <<"u", "n", "i", "t", "s", " ", "s", "o", "l", "d">> >>],
    [field |-> "unit_price", patterns |-> <<
          <<"p", "r", "i", "c", "e">>,
          <<"u", "n", "i", "t", " ", "p", "r", "i", "c", "e">>,
          <<"s", "e", "l", "l", "i", "n", "g", " ", "p", "r", "i", "c", "e">>,
          <<"r", "e", "t", "a", "i", "l", " ", "p", "r", "i", "c", "e">> >>],
    [field |-> "total_amount", patterns |-> <<
          <<"a", "m", "o", "u", "n", "t">>,
          <<"t", "o", "t", "a", "l">>,
          <<"t", "o", "t", "a", "l", " ", "a", "m", "o", "u", "n", "t">>,
          <<"s", "a", "l", "e", "s", " ", "a", "m", "o", "u", "n", "t">>,
          <<"r", "e", "v", "e", "n", "u", "e">> >>]
>>

TEMPLATE_SCHEMAS ==
    [t \in TemplateTypes |->
        CASE t = "BankStatement" -> BankStatementSchema
          [] t = "TrialBalance"  -> TrialBalanceSchema
          [] t = "AP_OpenItems"  -> APOpenItemsSchema
          [] t = "AR_Aging"      -> ARAgingSchema
          [] t = "POS_Sales"     -> POSSalesSchema]

\* SIMILARITY_THRESHOLD = 0.6, as the fraction 3/5.  Similarity scores are the
\* rationals [n, d]: every score is 1.0, 0.9 or 2*M/T with T < 100, and a float
\* division is correctly rounded, so float comparisons agree with exact ones.
SIMILARITY_THRESHOLD == [n |-> 3, d |-> 5]

QZero == [n |-> 0, d |-> 1]

QOne == [n |-> 1, d |-> 1]

QSubstring == [n |-> 9, d |-> 10]

QLess(x, y) == x.n * y.d < y.n * x.d

QEq(x, y) == x.n * y.d = y.n * x.d

\* Python's max(x, y): y when y > x, else x.
QMax(x, y) == IF QLess(x, y) THEN y ELSE x

UpperCase == <<"A", "B", "C", "D", "E", "F", "G", "H", "I", "J", "K", "L", "M",
               "N", "O", "P", "Q", "R", "S", "T", "U", "V", "W", "X", "Y", "Z">>

LowerCase == <<"a", "b", "c", "d", "e", "f", "g", "h", "i", "j", "k", "l", "m",
               "n", "o", "p", "q", "r", "s", "t", "u", "v", "w", "x", "y", "z">>

\* str.lower() on one character
LowerChar(c) ==
    IF \E i \in 1..Len(UpperCase) : UpperCase[i] = c
    THEN LowerCase[CHOOSE i \in 1..Len(UpperCase) : UpperCase[i] = c]
    ELSE c

Lower(s) == [i \in 1..Len(s) |-> LowerChar(s[i])]

Whitespace == {" ", "\t"}

\* str.strip(): drop leading and trailing whitespace
Strip(s) ==
    LET keep == {i \in 1..Len(s) : s[i] \notin Whitespace}
    IN  IF keep = {} THEN <<>>
        ELSE SubSeq(s, CHOOSE i \in keep : \A j \in keep : i <= j,
                       CHOOSE i \in keep : \A j \in keep : j <= i)

\* str.replace(old, " ") for a one-character old
ReplaceWithSpace(s, old) == [i \in 1..Len(s) |-> IF s[i] = old THEN " " ELSE s[i]]

normalize_column_name(col) ==
    ReplaceWithSpace(ReplaceWithSpace(Strip(Lower(col)), "_"), "-")

\* Python's "x in y" on strings
IsSubstring(x, y) ==
    \E i \in 1..(Len(y) - Len(x) + 1) : SubSeq(y, i, i + Len(x) - 1) = x

\* Length of the longest common run of a from i and b from j.
RECURSIVE CommonRun(_, _, _, _)
CommonRun(a, b, i, j) ==
    IF i > Len(a) \/ j > Len(b) \/ a[i] # b[j] THEN 0
    ELSE 1 + CommonRun(a, b, i + 1, j + 1)

\* difflib find_longest_match without junk: the longest matching block, the one
\* starting earliest in a, and of those the one starting earliest in b.
find_longest_match(a, b) ==
    LET run == [p \in (1..Len(a)) \X (1..Len(b)) |-> CommonRun(a, b, p[1], p[2])]
        best == CHOOSE p \in DOMAIN run :
                   \A q \in DOMAIN run :
                       \/ run[q] < run[p]
                       \/ run[q] = run[p] /\ (p[1] < q[1] \/ (p[1] = q[1] /\ p[2] <= q[2]))
    IN  [i |-> best[1], j |-> best[2], k |-> run[best]]

\* Total size of difflib's matching blocks: the longest block, then the same to
\* its left and to its right.
RECURSIVE MatchingSize(_, _)
MatchingSize(a, b) ==
    IF Len(a) = 0 \/ Len(b) = 0 THEN 0
    ELSE LET m == find_longest_match(a, b)
         IN  IF m.k = 0 THEN 0
             ELSE m.k + MatchingSize(SubSeq(a, 1, m.i - 1), SubSeq(b, 1, m.j - 1))
                      + MatchingSize(SubSeq(a, m.i + m.k, Len(a)),
                                     SubSeq(b, m.j + m.k, Len(b)))

\* SequenceMatcher(None, a, b).ratio() = 2.0 * matches / (len(a) + len(b)), 1.0 if both empty
SequenceRatio(a, b) ==
    IF Len(a) + Len(b) = 0 THEN QOne
    ELSE [n |-> 2 * MatchingSize(a, b), d |-> Len(a) + Len(b)]

\* A loop body without the substring rule.
PatternScoreByRatio(best_score, normalized_source, normalized_pattern) ==
    QMax(best_score, SequenceRatio(normalized_source, normalized_pattern))

\* The loop body of _calculate_column_similarity for one pattern.
PatternScore(best_score, normalized_source, normalized_pattern) ==
    LET afterSub == IF IsSubstring(normalized_pattern, normalized_source)
                       \/ IsSubstring(normalized_source, normalized_pattern)
                    THEN QMax(best_score, QSubstring)
                    ELSE best_score
    IN  QMax(afterSub, SequenceRatio(normalized_source, normalized_pattern))

RECURSIVE SimilarityFrom(_, _, _, _)
SimilarityFrom(normalized_source, patterns, i, best_score) ==
    IF i > Len(patterns) THEN best_score
    ELSE LET normalized_pattern == normalize_column_name(patterns[i])
         IN  IF normalized_source = normalized_pattern THEN QOne
             ELSE SimilarityFrom(normalized_source, patterns, i + 1,
                     PatternScore(best_score, normalized_source, normalized_pattern))

_calculate_column_similarity(source_col, patterns) ==
    SimilarityFrom(normalize_column_name(source_col), patterns, 1, QZero)

\* The column names the model draws source columns from.
HeaderPool ==
    {<<"D", "a", "t", "e">>,
     <<"D", "e", "s", "c", "r", "i", "p", "t", "i", "o", "n">>,
     <<"D", "e", "b", "i", "t">>,
     <<"B", "a", "l", "a", "n", "c", "e">>,
     <<"A", "c", "c", "o", "u", "n", "t", " ", "N", "u", "m", "b", "e", "r">>,
     <<"V", "e", "n", "d", "o", "r">>,
     <<"I", "n", "v", "o", "i", "c", "e", " ", "N", "o">>,
     <<"A", "m", "o", "u", "n", "t">>,
     <<>>,
     <<"T", "r", "a", "n", "s", "_", "D", "a", "t", "e">>,
     <<"R", "e", "f", "e", "r", "e", "n", "c", "e">>,
     <<"I", "n", "v", "o", "i", "c", "e", " ", "N", "u", "m", "b", "e", "r", "s">>}

\* Every pattern list of the catalog.
AllPatternLists ==
    UNION {{TEMPLATE_SCHEMAS[t][k].patterns : k \in 1..Len(TEMPLATE_SCHEMAS[t])} :
           t \in TemplateTypes}

\* _calculate_column_similarity, tabulated once for the pooled column names (the
\* value is the operator's; the table only avoids recomputing it in every state).
SimilarityTable ==
    [h \in HeaderPool |-> [p \in AllPatternLists |-> _calculate_column_similarity(h, p)]]

Similarity(source_col, patterns) ==
    IF source_col \in HeaderPool /\ patterns \in AllPatternLists
    THEN SimilarityTable[source_col][patterns]
    ELSE _calculate_column_similarity(source_col, patterns)

\* Python's None where a column name is expected: a column name is a sequence of
\* one-character strings, so this value is no column name.
NoneColumn == <<"None">>

\* One pass of map_columns' inner loop (lines 214-226) from source column i on:
\* the best not-yet-mapped source column for the patterns, or NoneColumn.
RECURSIVE BestSourceFrom(_, _, _, _, _, _)
BestSourceFrom(source_columns, patterns, mapped_sources, i, best_match, best_score) ==
    IF i > Len(source_columns) THEN best_match
    ELSE LET source_col == source_columns[i]
         IN  IF source_col \in mapped_sources
             THEN BestSourceFrom(source_columns, patterns, mapped_sources, i + 1,
                                 best_match, best_score)
             ELSE LET score == Similarity(source_col, patterns)
                  IN  IF QLess(best_score, score) /\ ~QLess(score, SIMILARITY_THRESHOLD)
                      THEN BestSourceFrom(source_columns, patterns, mapped_sources, i + 1,
                                          source_col, score)
                      ELSE BestSourceFrom(source_columns, patterns, mapped_sources, i + 1,
                                          best_match, best_score)

\* Python truthiness of best_match: None and the empty string are falsy.
Truthy(best_match) == best_match # NoneColumn /\ best_match # <<>>

\* The outer loop of map_columns (lines 210-232) from schema entry k on.  A mapping
\* is the dict in insertion order: a sequence of [key, value] items.
RECURSIVE MapFrom(_, _, _, _, _)
MapFrom(schema, source_columns, k, mappings, mapped_sources) ==
    IF k > Len(schema) THEN mappings
    ELSE LET best_match == BestSourceFrom(source_columns, schema[k].patterns,
                                          mapped_sources, 1, NoneColumn, QZero)
         IN  IF Truthy(best_match)
             THEN MapFrom(schema, source_columns, k + 1,
                          Append(mappings, [key |-> schema[k].field, value |-> best_match]),
                          mapped_sources \cup {best_match})
             ELSE MapFrom(schema, source_columns, k + 1,
                          Append(mappings, [key |-> schema[k].field, value |-> NoneColumn]),
                          mapped_sources)

\* map_columns that never records a mapped source (mapped_sources stays empty).
RECURSIVE MapFromReusing(_, _, _, _)
MapFromReusing(schema, source_columns, k, mappings) ==
    IF k > Len(schema) THEN mappings
    ELSE LET best_match == BestSourceFrom(source_columns, schema[k].patterns,
                                          {}, 1, NoneColumn, QZero)
         IN  MapFromReusing(schema, source_columns, k + 1,
                Append(mappings, [key |-> schema[k].field,
                                  value |-> IF Truthy(best_match) THEN best_match
                                            ELSE NoneColumn]))

map_columns_reusing(source_columns, template_type) ==
    IF template_type \notin TemplateTypes THEN <<>>
    ELSE MapFromReusing(TEMPLATE_SCHEMAS[template_type], source_columns, 1, <<>>)

\* map_columns that leaves a field without a match out of the dict.
map_columns_omitting(source_columns, template_type) ==
    IF template_type \notin TemplateTypes THEN <<>>
    ELSE LET full == MapFrom(TEMPLATE_SCHEMAS[template_type], source_columns, 1, <<>>, {})
         IN  SelectSeq(full, LAMBDA item : item.value # NoneColumn)

map_columns(source_columns, template_type) ==
    IF template_type \notin TemplateTypes THEN <<>>
    ELSE MapFrom(TEMPLATE_SCHEMAS[template_type], source_columns, 1, <<>>, {})

\* dict helpers on a mapping
Keys(mappings) == {mappings[i].key : i \in 1..Len(mappings)}

Get(mappings, key) ==
    mappings[CHOOSE i \in 1..Len(mappings) : mappings[i].key = key].value

\* get_mapping_confidence: [mapped_count, total_count], 0.0 for an empty mapping
get_mapping_confidence(mappings) ==
    IF Len(mappings) = 0 THEN QZero
    ELSE [n |-> Cardinality({i \in 1..Len(mappings) : mappings[i].value # NoneColumn}),
          d |-> Len(mappings)]

get_required_columns(template_type) ==
    CASE template_type = "BankStatement" -> <<"transaction_date", "description">>
      [] template_type = "TrialBalance"  -> <<"account_code", "account_name">>
      [] template_type = "AP_OpenItems"  -> <<"vendor_name", "invoice_number", "amount">>
      [] template_type = "AR_Aging"      -> <<"customer_name", "invoice_number", "amount">>
      [] template_type = "POS_Sales"     ->
            <<"transaction_date", "product_code", "quantity", "total_amount">>
      [] OTHER -> <<>>

\* The required columns that are absent from the mapping or mapped to None, in order.
RECURSIVE MissingFrom(_, _, _, _)
MissingFrom(required_columns, mappings, i, missing_columns) ==
    IF i > Len(required_columns) THEN missing_columns
    ELSE LET col == required_columns[i]
         IN  IF col \notin Keys(mappings) \/ Get(mappings, col) = NoneColumn
             THEN MissingFrom(required_columns, mappings, i + 1, Append(missing_columns, col))
             ELSE MissingFrom(required_columns, mappings, i + 1, missing_columns)

\* validate_mappings that finds every mapping valid.
validate_mappings_accepting(mappings, template_type) ==
    [is_valid |-> TRUE,
     missing_columns |-> MissingFrom(get_required_columns(template_type), mappings, 1, <<>>)]

validate_mappings(mappings, template_type) ==
    LET missing_columns == MissingFrom(get_required_columns(template_type), mappings, 1, <<>>)
    IN  [is_valid |-> Len(missing_columns) = 0, missing_columns |-> missing_columns]

(***************************************************************************)
(* DQValidationResult (dq_validator.py lines 14-73).  checks is the dict   *)
(* in insertion order: a sequence of [name, status, details] items.        *)
(***************************************************************************)
NewResult == [status |-> "passed", checks |-> <<>>, error_count |-> 0, warning_count |-> 0]

CheckNamesOf(checks) == {checks[i].name : i \in 1..Len(checks)}

\* self.checks[check_name] = {...}: overwrite in place, or insert at the end
SetCheck(checks, check_name, status, details) ==
    LET item == [name |-> check_name, status |-> status, details |-> details]
    IN  IF check_name \in CheckNamesOf(checks)
        THEN [i \in 1..Len(checks) |-> IF checks[i].name = check_name THEN item ELSE checks[i]]
        ELSE Append(checks, item)

\* A report whose status follows the latest check that did not pass.
add_check_latest(result, check_name, status, details) ==
    [status |-> IF status = "passed" THEN result.status ELSE status,
     checks |-> SetCheck(result.checks, check_name, status, details),
     error_count |-> result.error_count + (IF status = "failed" THEN 1 ELSE 0),
     warning_count |-> result.warning_count + (IF status = "warning" THEN 1 ELSE 0)]

\* A report whose status is the status of the check added last.
add_check_overwriting(result, check_name, status, details) ==
    [status |-> status,
     checks |-> SetCheck(result.checks, check_name, status, details),
     error_count |-> result.error_count + (IF status = "failed" THEN 1 ELSE 0),
     warning_count |-> result.warning_count + (IF status = "warning" THEN 1 ELSE 0)]

add_check(result, check_name, status, details) ==
    LET checks == SetCheck(result.checks, check_name, status, details)
    IN  IF status = "failed"
        THEN [status |-> "failed", checks |-> checks,
              error_count |-> result.error_count + 1,
              warning_count |-> result.warning_count]
        ELSE IF status = "warning" /\ result.status # "failed"
        THEN [status |-> IF result.status = "passed" THEN "warning" ELSE result.status,
              checks |-> checks,
              error_count |-> result.error_count,
              warning_count |-> result.warning_count + 1]
        ELSE [result EXCEPT !.checks = checks]

\* The characters of each canonical field name, for the "keyword in name" tests.
FieldNameChars ==
    [transaction_date |-> <<"t", "r", "a", "n", "s", "a", "c", "t", "i", "o", "n", "_", "d", "a", "t", "e">>,
     description |-> <<"d", "e", "s", "c", "r", "i", "p", "t", "i", "o", "n">>,
     debit_amount |-> <<"d", "e", "b", "i", "t", "_", "a", "m", "o", "u", "n", "t">>,
     credit_amount |-> <<"c", "r", "e", "d", "i", "t", "_", "a", "m", "o", "u", "n", "t">>,
     balance |-> <<"b", "a", "l", "a", "n", "c", "e">>,
     reference_number |-> <<"r", "e", "f", "e", "r", "e", "n", "c", "e", "_", "n", "u", "m", "b", "e", "r">>,
     account_code |-> <<"a", "c", "c", "o", "u", "n", "t", "_", "c", "o", "d", "e">>,
     account_name |-> <<"a", "c", "c", "o", "u", "n", "t", "_", "n", "a", "m", "e">>,
     vendor_name |-> <<"v", "e", "n", "d", "o", "r", "_", "n", "a", "m", "e">>,
     vendor_code |-> <<"v", "e", "n", "d", "o", "r", "_", "c", "o", "d", "e">>,
     invoice_number |-> <<"i", "n", "v", "o", "i", "c", "e", "_", "n", "u", "m", "b", "e", "r">>,
     invoice_date |-> <<"i", "n", "v", "o", "i", "c", "e", "_", "d", "a", "t", "e">>,
     due_date |-> <<"d", "u", "e", "_", "d", "a", "t", "e">>,
     amount |-> <<"a", "m", "o", "u", "n", "t">>,
     currency |-> <<"c", "u", "r", "r", "e", "n", "c", "y">>,
     customer_name |-> <<"c", "u", "s", "t", "o", "m", "e", "r", "_", "n", "a", "m", "e">>,
     customer_code |-> <<"c", "u", "s", "t", "o", "m", "e", "r", "_", "c", "o", "d", "e">>,
     current |-> <<"c", "u", "r", "r", "e", "n", "t">>,
     days_30 |-> <<"d", "a", "y", "s", "_", "3", "0">>,
     days_60 |-> <<"d", "a", "y", "s", "_", "6", "0">>,
     days_90_plus |-> <<"d", "a", "y", "s", "_", "9", "0", "_", "p", "l", "u", "s">>,
     store_code |-> <<"s", "t", "o", "r", "e", "_", "c", "o", "d", "e">>,
     product_code |-> <<"p", "r", "o", "d", "u", "c", "t", "_", "c", "o", "d", "e">>,
     product_name |-> <<"p", "r", "o", "d", "u", "c", "t", "_", "n", "a", "m", "e">>,
     quantity |-> <<"q", "u", "a", "n", "t", "i", "t", "y">>,
     unit_price |-> <<"u", "n", "i", "t", "_", "p", "r", "i", "c", "e">>,
     total_amount |-> <<"t", "o", "t", "a", "l", "_", "a", "m", "o", "u", "n", "t">>]

(***************************************************************************)
(* Tables (pandas DataFrames).  A table is [columns, data, nrows]: the     *)
(* column names, the cells of each column in row order, and the number of  *)
(* rows.  A cell is [kind, v, style, len]:                                 *)
(*   null   an empty cell or an NA marker ("N/A", "null", ...): NaN        *)
(*   num    a plain number v (1500.25)                                     *)
(*   money  a number v written with a currency sign or thousands           *)
(*          separators ("$1,500.25")                                       *)
(*   date   day v of the year written in the format `style`; NativeDate is *)
(*          a spreadsheet date cell, OtherDate a format outside            *)
(*          DATE_FORMATS ("15.01.2025")                                    *)
(*   code   an identifier with digits ("INV-1001"), numbered v             *)
(*   text   a word without digits ("Rent"), numbered v                     *)
(* len is the length of the cell's text.  A column whose cells are all     *)
(* numbers or empty has a numeric dtype; in any other column a number is   *)
(* held as text that the generic date parser does not read as a date.      *)
(***************************************************************************)
Null == [kind |-> "null", v |-> 0, style |-> "", len |-> 0]

DATE_FORMATS == <<"%Y-%m-%d", "%m/%d/%Y", "%d/%m/%Y", "%Y/%m/%d", "%m-%d-%Y", "%d-%m-%Y",
                  "%b %d, %Y", "%B %d, %Y", "%d-%b-%Y">>

NativeDate == "datetime"

OtherDate == "%d.%m.%Y"

CumDays == <<0, 31, 59, 90, 120, 151, 181, 212, 243, 273, 304, 334, 365>>

Month(day) == CHOOSE m \in 1..12 : CumDays[m] < day /\ day <= CumDays[m + 1]

DayOfMonth(day) == day - CumDays[Month(day)]

\* The format that reads the same text with day and month exchanged.
SwapPartner(style) ==
    CASE style = "%m/%d/%Y" -> "%d/%m/%Y"
      [] style = "%d/%m/%Y" -> "%m/%d/%Y"
      [] style = "%m-%d-%Y" -> "%d-%m-%Y"
      [] style = "%d-%m-%Y" -> "%m-%d-%Y"
      [] OTHER -> ""

\* "May" is both the abbreviated and the full month name.
SameMonthName(style, format) ==
    /\ style \in {"%b %d, %Y", "%B %d, %Y"}
    /\ format \in {"%b %d, %Y", "%B %d, %Y"}

\* pd.to_datetime(cell, format=format, errors="coerce") is not NaT
ParsesWithFormat(cell, format) ==
    /\ cell.kind = "date"
    /\ \/ cell.style = NativeDate
       \/ cell.style = format
       \/ SwapPartner(cell.style) = format /\ DayOfMonth(cell.v) <= 12
       \/ SameMonthName(cell.style, format) /\ Month(cell.v) = 5

is_numeric_dtype(series) == \A i \in 1..Len(series) : series[i].kind \in {"num", "null"}

\* pd.to_datetime(series, errors="coerce") is not NaT at this cell: numbers of a
\* numeric dtype are taken as nanoseconds since the epoch.
ParsesAsDate(cell, numeric_dtype) ==
    IF numeric_dtype THEN cell.kind = "num" ELSE cell.kind = "date"

\* pd.to_numeric(cell, errors="coerce") is not NaN
ParsesAsNumber(cell) == cell.kind = "num"

\* the same after .str.replace(r'[$,]', '')
ParsesAsCleanedNumber(cell) == cell.kind \in {"num", "money"}

\* str.contains(r'\d')
HasDigit(cell) == cell.kind \in {"num", "money", "date", "code"}

notna(cell) == cell.kind # "null"

dropna(series) == SelectSeq(series, notna)

head(series, n) == SubSeq(series, 1, IF Len(series) < n THEN Len(series) ELSE n)

CountDates(series, numeric_dtype) ==
    Cardinality({i \in 1..Len(series) : ParsesAsDate(series[i], numeric_dtype)})

CountNumbers(series) == Cardinality({i \in 1..Len(series) : ParsesAsNumber(series[i])})

CountCleanedNumbers(series) ==
    Cardinality({i \in 1..Len(series) : ParsesAsCleanedNumber(series[i])})

CountDigits(series) == Cardinality({i \in 1..Len(series) : HasDigit(series[i])})

CountNotNa(series) == Cardinality({i \in 1..Len(series) : notna(series[i])})

\* Sum of f over lo..hi, by halves.
RECURSIVE SumOver(_, _, _)
SumOver(f, lo, hi) ==
    IF lo > hi THEN 0
    ELSE IF lo = hi THEN f[lo]
    ELSE SumOver(f, lo, (lo + hi) \div 2) + SumOver(f, (lo + hi) \div 2 + 1, hi)

Sum(f) == SumOver(f, 1, Len(f))

Squares(f) == [i \in 1..Len(f) |-> f[i] * f[i]]

\* n * (n - 1) times the sample variance (ddof = 1) of f
ScaledVariance(f) == Len(f) * Sum(Squares(f)) - Sum(f) * Sum(f)

\* A date test that passes at 70% already.
DateSampleAtLeast(sample, numeric_dtype) ==
    Len(sample) # 0 /\ CountDates(sample, numeric_dtype) * 10 >= 7 * Len(sample)

\* _is_date_column on the non-empty cells of a column (lines 335-353)
DateSampleOk(sample, numeric_dtype) ==
    Len(sample) # 0 /\ CountDates(sample, numeric_dtype) * 10 > 7 * Len(sample)

_is_date_column(series) == DateSampleOk(head(dropna(series), 10), is_numeric_dtype(series))

\* _is_numeric_column (lines 355-377)
NumericSampleOk(sample) ==
    Len(sample) # 0 /\ CountCleanedNumbers(sample) * 10 > 7 * Len(sample)

_is_numeric_column(series) ==
    is_numeric_dtype(series) \/ NumericSampleOk(head(dropna(series), 10))

\* The day of each valid date: an epoch offset of some nanoseconds is day 0.
DayOf(cell) == IF cell.kind = "date" THEN cell.v ELSE 0

DatesOf(series, numeric_dtype) ==
    SelectSeq(series, LAMBDA cell : ParsesAsDate(cell, numeric_dtype))

Days(dates) == [i \in 1..Len(dates) |-> DayOf(dates[i])]

Ascending(f) == SortSeq(f, LAMBDA a, b : a < b)

Diffs(sorted) == [i \in 1..(Len(sorted) - 1) |-> sorted[i + 1] - sorted[i]]

\* median(f) <= bound, f ascending and not empty
MedianAtMost(f, bound) ==
    IF Len(f) % 2 = 1 THEN f[(Len(f) + 1) \div 2] <= bound
    ELSE f[Len(f) \div 2] + f[Len(f) \div 2 + 1] <= 2 * bound

\* _has_sequential_dates (lines 379-398)
SequentialDays(days) ==
    Len(days) >= 2 /\ MedianAtMost(Ascending(Diffs(Ascending(days))), 7)

_has_sequential_dates(series) ==
    SequentialDays(Days(DatesOf(series, is_numeric_dtype(series))))

\* _looks_like_running_balance (lines 400-426): cv = std / mean < 2.0, that is
\* n * (n * sum(x^2) - sum(x)^2) < 4 * (n - 1) * sum(x)^2 when the mean is positive.
Values(series) == [i \in 1..Len(series) |-> series[i].v]

RunningBalanceValues(x) ==
    /\ Len(x) >= 3
    /\ \/ \A i \in 1..Len(x) : x[i] < 0
       \/ /\ \A i \in 1..Len(x) : x[i] > 0
          /\ Len(x) * ScaledVariance(x) < 4 * (Len(x) - 1) * Sum(x) * Sum(x)

_looks_like_running_balance(series) ==
    RunningBalanceValues(Values(SelectSeq(series, ParsesAsNumber)))

\* _looks_like_account_numbers (lines 428-455): digits in at least 70% of the
\* sample and a standard deviation of the lengths below 3 (NaN for one value).
Lengths(series) == [i \in 1..Len(series) |-> series[i].len]

AccountNumberSample(sample) ==
    /\ Len(sample) # 0
    /\ CountDigits(sample) * 10 >= 7 * Len(sample)
    /\ Len(sample) >= 2
    /\ ScaledVariance(Lengths(sample)) < 9 * Len(sample) * (Len(sample) - 1)

_looks_like_account_numbers(series) == AccountNumberSample(head(dropna(series), 20))

\* _has_debit_credit_pattern (lines 457-488): in some pair of numeric columns,
\* more than 60% of the rows have a non-zero number on one side only.
NonZeroNumber(cell) == ParsesAsNumber(cell) /\ cell.v # 0

OneSided(col1, col2) ==
    Cardinality({r \in 1..Len(col1) : /\ NonZeroNumber(col1[r]) \/ NonZeroNumber(col2[r])
                                      /\ ~(NonZeroNumber(col1[r]) /\ NonZeroNumber(col2[r]))})

_has_debit_credit_pattern(df, numeric_cols) ==
    /\ Len(numeric_cols) >= 2
    /\ \E i, j \in 1..Len(numeric_cols) :
          /\ i < j
          /\ OneSided(df.data[numeric_cols[i] + 1], df.data[numeric_cols[j] + 1]) * 5
                > 3 * df.nrows

\* _has_aging_bucket_pattern (lines 490-507)
aging_keywords ==
    {<<"c", "u", "r", "r", "e", "n", "t">>, <<"3", "0">>, <<"6", "0">>, <<"9", "0">>,
     <<"1", "2", "0">>, <<"d", "a", "y", "s">>, <<"a", "g", "i", "n", "g">>}

HasAgingKeyword(name) == \E kw \in aging_keywords : IsSubstring(kw, Lower(name))

_has_aging_bucket_pattern(df, numeric_cols) ==
    /\ Len(numeric_cols) >= 3
    /\ Cardinality({i \in 1..Len(numeric_cols) :
                        HasAgingKeyword(df.columns[numeric_cols[i] + 1])}) >= 3

\* The tag _analyze_dataframe gives a column (lines 103-127): none when the
\* column has no value, else date, else numeric, else text.
ColumnTag(series) ==
    IF CountNotNa(series) = 0 THEN "empty"
    ELSE IF _is_date_column(series) THEN "date"
    ELSE IF _is_numeric_column(series) THEN "numeric"
    ELSE "text"

\* The indices (from 0) of the columns with this tag, in column order.
TaggedColumns(df, tag) ==
    SelectSeq([i \in 1..Len(df.columns) |-> i - 1],
              LAMBDA idx : ColumnTag(df.data[idx + 1]) = tag)

AnalysisOf(df, date_columns, numeric_columns, text_columns) ==
    [date_columns        |-> date_columns,
     numeric_columns     |-> numeric_columns,
     text_columns        |-> text_columns,
     has_running_balance |->
        \E i \in 1..Len(numeric_columns) :
            _looks_like_running_balance(df.data[numeric_columns[i] + 1]),
     has_debit_credit    |-> _has_debit_credit_pattern(df, numeric_columns),
     has_aging_buckets   |-> _has_aging_bucket_pattern(df, numeric_columns),
     has_account_numbers |->
        \E i \in 1..Len(text_columns) :
            _looks_like_account_numbers(df.data[text_columns[i] + 1]),
     has_sequential_dates |->
        \E i \in 1..Len(date_columns) :
            _has_sequential_dates(df.data[date_columns[i] + 1]),
     num_rows            |-> df.nrows,
     num_columns         |-> Len(df.columns)]

\* _analyze_dataframe with the numeric test made on every column, dates included.
_analyze_dataframe_independent(df) ==
    AnalysisOf(df, TaggedColumns(df, "date"),
               SelectSeq([i \in 1..Len(df.columns) |-> i - 1],
                         LAMBDA idx : /\ CountNotNa(df.data[idx + 1]) > 0
                                      /\ _is_numeric_column(df.data[idx + 1])),
               TaggedColumns(df, "text"))

\* _analyze_dataframe (lines 73-141)
_analyze_dataframe(df) ==
    AnalysisOf(df, TaggedColumns(df, "date"), TaggedColumns(df, "numeric"),
               TaggedColumns(df, "text"))

\* detect_from_dataframe (lines 30-71)
detect_from_dataframe(df) == detect_from_analysis(_analyze_dataframe(df))

(***************************************************************************)
(* DQValidator: the six checks of validate_dataset (dq_validator.py).      *)
(* A column mapping is the sequence of the dict's items, [key, value].     *)
(***************************************************************************)
MAX_NULL_PERCENTAGE == [n |-> 1, d |-> 2]

InColumns(df, src_col) == \E i \in 1..Len(df.columns) : df.columns[i] = src_col

ColumnOf(df, src_col) == df.data[CHOOSE i \in 1..Len(df.columns) : df.columns[i] = src_col]

\* "keyword in std_col.lower()"
NameHas(std_col, keyword) == IsSubstring(keyword, Lower(FieldNameChars[std_col]))

\* The fields of a check's per-column details that have this status, in order.
FieldsWithStatus(details, status) ==
    SelectSeq([i \in 1..Len(details) |-> details[i].field],
              LAMBDA field : \E i \in 1..Len(details) :
                                details[i].field = field /\ details[i].status = status)

\* _check_required_columns (lines 153-192)
RequiredStatus(result, missing_columns) ==
    add_check(result, "required_columns",
              IF missing_columns # <<>> THEN "failed" ELSE "passed", missing_columns)

_check_required_columns(df, template_type, column_mappings, result) ==
    RequiredStatus(result,
                   MissingFrom(get_required_columns(template_type), column_mappings, 1, <<>>))

\* _check_date_formats (lines 194-281)
IsDateField(item) ==
    NameHas(item.key, <<"d", "a", "t", "e">>) /\ item.value # NoneColumn

CountParsed(series, format) ==
    Cardinality({i \in 1..Len(series) : ParsesWithFormat(series[i], format)})

\* parsed_count / total_count >= 0.8
FormatFits(series, format) == CountParsed(series, format) * 5 >= 4 * CountNotNa(series)

FittingFormats(series) == {k \in 1..Len(DATE_FORMATS) : FormatFits(series, DATE_FORMATS[k])}

FirstOf(indices) == CHOOSE k \in indices : \A j \in indices : k <= j

\* A check that records the last fitting format instead of the first.
DateDetailLastFormat(std_col, series, fitting) ==
    IF CountNotNa(series) = 0 THEN [field |-> std_col, status |-> "warning", format |-> ""]
    ELSE IF fitting # {}
    THEN [field |-> std_col, status |-> "passed",
          format |-> DATE_FORMATS[CHOOSE k \in fitting : \A j \in fitting : j <= k]]
    ELSE [field |-> std_col, status |-> "failed", format |-> ""]

DateDetail(std_col, series, fitting) ==
    IF CountNotNa(series) = 0 THEN [field |-> std_col, status |-> "warning", format |-> ""]
    ELSE IF fitting # {}
    THEN [field |-> std_col, status |-> "passed", format |-> DATE_FORMATS[FirstOf(fitting)]]
    ELSE [field |-> std_col, status |-> "failed", format |-> ""]

DateDetails(df, date_columns) ==
    [i \in 1..Len(date_columns) |->
        DateDetail(date_columns[i].key, ColumnOf(df, date_columns[i].value),
                   FittingFormats(ColumnOf(df, date_columns[i].value)))]

DateStatus(result, date_check_details) ==
    add_check(result, "date_formats",
              IF FieldsWithStatus(date_check_details, "failed") # <<>>
              THEN "failed" ELSE "passed",
              date_check_details)

DateCheck(df, date_columns, result) ==
    IF date_columns = <<>> THEN result
    ELSE DateStatus(result,
                    DateDetails(df, SelectSeq(date_columns,
                                              LAMBDA item : InColumns(df, item.value))))

_check_date_formats(df, column_mappings, result) ==
    DateCheck(df, SelectSeq(column_mappings, IsDateField), result)

\* _check_numeric_columns (lines 283-373)
numeric_keywords ==
    {<<"a", "m", "o", "u", "n", "t">>, <<"q", "u", "a", "n", "t", "i", "t", "y">>,
     <<"q", "t", "y">>, <<"p", "r", "i", "c", "e">>,
     <<"b", "a", "l", "a", "n", "c", "e">>, <<"t", "o", "t", "a", "l">>}

IsNumericField(item) ==
    (\E keyword \in numeric_keywords : NameHas(item.key, keyword)) /\ item.value # NoneColumn

\* valid_count / total_count * 100 >= 80
NumericDetail(std_col, series) ==
    IF CountNotNa(series) = 0 THEN [field |-> std_col, status |-> "warning"]
    ELSE IF CountNumbers(series) * 100 >= 80 * CountNotNa(series)
    THEN [field |-> std_col, status |-> "passed"]
    ELSE [field |-> std_col, status |-> "failed"]

NumericDetails(df, numeric_columns) ==
    [i \in 1..Len(numeric_columns) |->
        NumericDetail(numeric_columns[i].key, ColumnOf(df, numeric_columns[i].value))]

NumericStatus(result, numeric_check_details) ==
    add_check(result, "numeric_columns",
              IF FieldsWithStatus(numeric_check_details, "failed") # <<>>
              THEN "warning" ELSE "passed",
              numeric_check_details)

NumericCheck(df, numeric_columns, result) ==
    IF numeric_columns = <<>> THEN result
    ELSE NumericStatus(result,
                       NumericDetails(df, SelectSeq(numeric_columns,
                                                    LAMBDA item : InColumns(df, item.value))))

\* A numeric check that fails the report when a field is failed.
_check_numeric_columns_failing(df, column_mappings, result) ==
    IF SelectSeq(column_mappings, IsNumericField) = <<>> THEN result
    ELSE add_check(result, "numeric_columns",
                   IF \E i \in 1..Len(column_mappings) :
                         /\ IsNumericField(column_mappings[i])
                         /\ InColumns(df, column_mappings[i].value)
                         /\ CountNotNa(ColumnOf(df, column_mappings[i].value)) > 0
                         /\ CountNumbers(ColumnOf(df, column_mappings[i].value)) * 100
                               < 80 * CountNotNa(ColumnOf(df, column_mappings[i].value))
                   THEN "failed" ELSE "passed",
                   <<>>)

_check_numeric_columns(df, column_mappings, result) ==
    NumericCheck(df, SelectSeq(column_mappings, IsNumericField), result)

\* _check_duplicates (lines 375-446)
DuplicateKeyFields ==
    {"transaction_date", "invoice_number", "reference_number", "product_code", "account_code"}

IsKeyColumn(df, item) ==
    Truthy(item.value) /\ item.key \in DuplicateKeyFields /\ InColumns(df, item.value)

KeyColumns(df, column_mappings) ==
    {i \in 1..Len(df.columns) :
        \E k \in 1..Len(column_mappings) :
            IsKeyColumn(df, column_mappings[k]) /\ column_mappings[k].value = df.columns[i]}

\* df.duplicated(subset).sum(): the rows that repeat an earlier row
duplicated(df, subset) ==
    Cardinality({r \in 1..df.nrows :
                    \E q \in 1..(r - 1) : \A c \in subset : df.data[c][q] = df.data[c][r]})

DuplicateStatus(result, duplicate_count) ==
    add_check(result, "duplicates",
              IF duplicate_count > 0 THEN "warning" ELSE "passed", duplicate_count)

DuplicateCheck(df, key_columns, result) ==
    IF key_columns = {}
    THEN DuplicateStatus(result, duplicated(df, 1..Len(df.columns)))
    ELSE DuplicateStatus(result, duplicated(df, key_columns))

_check_duplicates(df, column_mappings, result) ==
    DuplicateCheck(df, KeyColumns(df, column_mappings), result)

\* _check_null_values (lines 448-493): null_count / total_count > 0.5
HighNull(df, item) ==
    /\ Truthy(item.value) /\ InColumns(df, item.value)
    /\ df.nrows > 0
    /\ (Len(ColumnOf(df, item.value)) - CountNotNa(ColumnOf(df, item.value)))
           * MAX_NULL_PERCENTAGE.d > MAX_NULL_PERCENTAGE.n * df.nrows

NullStatus(result, high_null_columns) ==
    add_check(result, "null_values",
              IF high_null_columns # <<>> THEN "warning" ELSE "passed", high_null_columns)

_check_null_values(df, column_mappings, result) ==
    NullStatus(result, SelectSeq(column_mappings, LAMBDA item : HighNull(df, item)))

\* _check_row_count (lines 495-527)
MinRows == 1

RecommendedRows == 10

_check_row_count(df, result) ==
    add_check(result, "row_count",
              IF df.nrows < MinRows THEN "failed"
              ELSE IF df.nrows < RecommendedRows THEN "warning"
              ELSE "passed",
              df.nrows)

\* validate_dataset (lines 100-151): the six checks in order on a new report.
validate_dataset(df, template_type, column_mappings) ==
    _check_row_count(df,
      _check_null_values(df, column_mappings,
        _check_duplicates(df, column_mappings,
          _check_numeric_columns(df, column_mappings,
            _check_date_formats(df, column_mappings,
              _check_required_columns(df, template_type, column_mappings, NewResult))))))

(***************************************************************************)
(* FileParser (file_parser.py).  A file is [exists, ext, readable,         *)
(* delimiter, sheet]: sheet is the table its content holds, as the reader  *)
(* delivers it (the spreadsheet reader has already cut the trailing rows   *)
(* of empty cells, so a row of nulls is a row of NA markers or an empty    *)
(* row above a later one); delimiter is the separator a CSV file uses.     *)
(* parse_file returns [ok, error, df].                                     *)
(***************************************************************************)
EXCEL_EXTENSIONS == {".xlsx", ".xls"}

CSV_EXTENSIONS == {".csv"}

SUPPORTED_EXTENSIONS == EXCEL_EXTENSIONS \cup CSV_EXTENSIONS

delimiters == <<",", ";", "\t", "|">>

EmptyTable == [columns |-> <<>>, data |-> <<>>, nrows |-> 0]

Raise(error) == [ok |-> FALSE, error |-> error, df |-> EmptyTable]

Return(df) == [ok |-> TRUE, error |-> "", df |-> df]

\* df.empty
empty(df) == df.nrows = 0 \/ Len(df.columns) = 0

\* df.columns = df.columns.str.strip()
StripColumns(df) ==
    [columns |-> [i \in 1..Len(df.columns) |-> Strip(df.columns[i])],
     data    |-> df.data,
     nrows   |-> df.nrows]

TakeRows(df, rows) ==
    [columns |-> df.columns,
     data    |-> [c \in 1..Len(df.columns) |-> [k \in 1..Len(rows) |-> df.data[c][rows[k]]]],
     nrows   |-> Len(rows)]

\* df.dropna(how="all").reset_index(drop=True)
DropEmptyRows(df) ==
    TakeRows(df, SelectSeq([r \in 1..df.nrows |-> r],
                           LAMBDA r : \E c \in 1..Len(df.columns) : notna(df.data[c][r])))

\* _parse_excel (lines 69-107): the emptiness test comes before the empty rows
\* are dropped.
_parse_excel(file) ==
    IF ~file.readable THEN Raise("FileParseError")
    ELSE IF empty(file.sheet) THEN Raise("FileParseError")
    ELSE Return(DropEmptyRows(StripColumns(file.sheet)))

\* pd.read_csv(file_path, delimiter=delimiter): with another separator than the
\* file's, every line is one field.
OneColumn(sheet) ==
    [columns |-> <<<<>>>>, data |-> <<[r \in 1..sheet.nrows |-> Null]>>, nrows |-> sheet.nrows]

\* What pd.read_csv does with each delimiter is part of the file: it raises
\* (pd.errors.ParserError, EmptyDataError, ...) or returns a table.
Raises == [raises |-> TRUE, df |-> EmptyTable]

Reads(df) == [raises |-> FALSE, df |-> df]

\* A file separated by one character only.
ReadsOf(delimiter, sheet) ==
    [d \in {delimiters[k] : k \in 1..Len(delimiters)} |->
        IF d = delimiter THEN Reads(sheet) ELSE Reads(OneColumn(sheet))]

read_csv(file, delimiter) == file.reads[delimiter]

CsvAccepted(df) == Len(df.columns) > 1 /\ ~empty(DropEmptyRows(StripColumns(df)))

\* _parse_csv (lines 109-158): an exception raised for one delimiter is caught
\* (lines 145-146) and the next delimiter is tried.
RECURSIVE TryDelimiters(_, _)
TryDelimiters(file, k) ==
    IF k > Len(delimiters) THEN Raise("FileParseError")
    ELSE IF /\ file.readable
            /\ ~read_csv(file, delimiters[k]).raises
            /\ CsvAccepted(read_csv(file, delimiters[k]).df)
    THEN Return(DropEmptyRows(StripColumns(read_csv(file, delimiters[k]).df)))
    ELSE TryDelimiters(file, k + 1)

\* A parser that gives up at the first delimiter that raises.
RECURSIVE TryUntilRaise(_, _)
TryUntilRaise(file, k) ==
    IF k > Len(delimiters) THEN Raise("FileParseError")
    ELSE IF ~file.readable \/ read_csv(file, delimiters[k]).raises
    THEN Raise("FileParseError")
    ELSE IF CsvAccepted(read_csv(file, delimiters[k]).df)
    THEN Return(DropEmptyRows(StripColumns(read_csv(file, delimiters[k]).df)))
    ELSE TryUntilRaise(file, k + 1)

_parse_csv_until_raise(file) == TryUntilRaise(file, 1)

_parse_csv(file) == TryDelimiters(file, 1)

\* parse_file (lines 27-67)
parse_file(file) ==
    IF ~file.exists THEN Raise("FileNotFoundError")
    ELSE IF file.ext \notin SUPPORTED_EXTENSIONS THEN Raise("FileParseError")
    ELSE IF file.ext \in EXCEL_EXTENSIONS THEN _parse_excel(file)
    ELSE _parse_csv(file)

(***************************************************************************)
(* DatasetService (dataset_service.py).  The database holds the mapping    *)
(* configs and the datasets of the tenant, in id order (id = position).    *)
(***************************************************************************)
EmptyDb == [mapping_configs |-> <<>>, datasets |-> <<>>]

\* Python's None where an object, a mapping or an id is expected.
NoneRecord == [none |-> TRUE]

NoneMapping == <<NoneRecord>>

NoneId == 0

\* processing_results as process_file_upload creates it (lines 174-178); a step
\* that has not reported is None.
NewProcessingResults ==
    [success |-> FALSE, errors |-> <<>>,
     parsing |-> NoneRecord, template_detection |-> NoneRecord,
     column_mapping |-> NoneRecord, dq_validation |-> NoneRecord, dataset_id |-> NoneId]

ErrorItem(message, detail) == [message |-> message, detail |-> detail]

\* lines 287-289: an exception raised by a stage is caught and reported
ProcessingFailed(processing_results, error) ==
    [processing_results EXCEPT
        !.errors = Append(@, ErrorItem("Processing failed", error))]

\* lines 184-189
ParsingStep(processing_results, df) ==
    [processing_results EXCEPT
        !.parsing = [status |-> "success", row_count |-> df.nrows,
                     column_count |-> Len(df.columns), columns |-> df.columns]]

\* A pipeline that goes on whatever the detector returned.
NotDetectedIgnored(detected_type) == FALSE

\* line 196: if not template_type
NotDetected(detected_type) == detected_type = NoneValue

\* lines 197-199
DetectionFailedStep(processing_results) ==
    [processing_results EXCEPT
        !.errors = Append(@, ErrorItem("Could not detect template type", <<>>))]

\* lines 202-206
DetectionStep(processing_results, detected) ==
    [processing_results EXCEPT
        !.template_detection = [status |-> "success",
                                template_type |-> detected.template_type,
                                confidence |-> detected.confidence]]

\* A missing-columns outcome that does not carry the list.
MissingColumnsStepWithoutList(processing_results, column_mappings, missing_columns) ==
    [processing_results EXCEPT
        !.errors = Append(@, ErrorItem("Missing required columns", <<>>)),
        !.column_mapping = [status |-> "failed", mappings |-> column_mappings,
                            missing_columns |-> <<>>]]

\* lines 217-227
MissingColumnsStep(processing_results, column_mappings, missing_columns) ==
    [processing_results EXCEPT
        !.errors = Append(@, ErrorItem("Missing required columns", missing_columns)),
        !.column_mapping = [status |-> "failed", mappings |-> column_mappings,
                            missing_columns |-> missing_columns]]

\* lines 229-233
MappingStep(processing_results, column_mappings) ==
    [processing_results EXCEPT
        !.column_mapping = [status |-> "success", mappings |-> column_mappings,
                            missing_columns |-> <<>>]]

\* line 240
ValidationStep(processing_results, dq_result) ==
    [processing_results EXCEPT !.dq_validation = dq_result]

\* lines 282-283
SuccessStep(processing_results, dataset_id) ==
    [processing_results EXCEPT !.success = TRUE, !.dataset_id = dataset_id]

\* json.dumps(a, sort_keys=True) == json.dumps(b, sort_keys=True)
SameMapping(a, b) ==
    {<<a[i].key, a[i].value>> : i \in 1..Len(a)} = {<<b[i].key, b[i].value>> : i \in 1..Len(b)}

MatchingConfigs(db, detected_type, column_mappings) ==
    {i \in 1..Len(db.mapping_configs) :
        /\ db.mapping_configs[i].template_type = detected_type
        /\ SameMapping(db.mapping_configs[i].column_mappings, column_mappings)}

\* _get_or_create_mapping_config (lines 291-346): [db, id] after the call
_get_or_create_mapping_config(db, detected_type, column_mappings) ==
    IF MatchingConfigs(db, detected_type, column_mappings) # {}
    THEN [db |-> [db EXCEPT !.mapping_configs[
                        FirstOf(MatchingConfigs(db, detected_type, column_mappings))
                     ].use_count = @ + 1],
          id |-> FirstOf(MatchingConfigs(db, detected_type, column_mappings))]
    ELSE [db |-> [db EXCEPT !.mapping_configs =
                        Append(@, [template_type |-> detected_type,
                                   column_mappings |-> column_mappings,
                                   use_count |-> 1])],
          id |-> Len(db.mapping_configs) + 1]

\* _get_or_create_mapping_config as its database statements: the query of
\* lines 313-321 loads the tenant's configs of this template type into the
\* Session, each with the id of its row.
LoadedConfigs(db, detected_type) ==
    SelectSeq([i \in 1..Len(db.mapping_configs) |-> [id |-> i, row |-> db.mapping_configs[i]]],
              LAMBDA config : config.row.template_type = detected_type)

MatchingLoaded(existing, column_mappings) ==
    {k \in 1..Len(existing) : SameMapping(existing[k].row.column_mappings, column_mappings)}

\* Lines 323-346 on the loaded rows: config.use_count += 1 writes the loaded
\* count plus one (UPDATE ... SET use_count = <value>), otherwise a new row is
\* inserted; db.commit().
SaveConfig(db, existing, detected_type, column_mappings) ==
    IF MatchingLoaded(existing, column_mappings) # {}
    THEN [db EXCEPT !.mapping_configs[
                existing[FirstOf(MatchingLoaded(existing, column_mappings))].id
             ].use_count =
                existing[FirstOf(MatchingLoaded(existing, column_mappings))].row.use_count + 1]
    ELSE [db EXCEPT !.mapping_configs =
                Append(@, [template_type |-> detected_type,
                           column_mappings |-> column_mappings,
                           use_count |-> 1])]

\* The versions of the datasets with this template type (entity and period are
\* None in every dataset the pipeline creates).
Versions(db, detected_type) ==
    {db.datasets[i].version : i \in {j \in 1..Len(db.datasets) :
                                        db.datasets[j].template_type = detected_type}}

MaxOf(numbers) == CHOOSE n \in numbers : \A m \in numbers : m <= n

NextVersion(versions) == IF versions = {} THEN 1 ELSE MaxOf(versions) + 1

\* create_dataset (lines 27-76): the database after the insert; the new dataset
\* is the last one.
create_dataset(db, dataset_data) ==
    [db EXCEPT !.datasets =
        Append(@, [id |-> Len(db.datasets) + 1,
                   template_type |-> dataset_data.template_type,
                   version |-> NextVersion(Versions(db, dataset_data.template_type)),
                   mapping_config_id |-> dataset_data.mapping_config_id,
                   dq_status |-> "pending",
                   row_count |-> dataset_data.row_count,
                   column_count |-> dataset_data.column_count,
                   column_mappings |-> dataset_data.column_mappings])]

\* An update that only reaches the first dataset of the database.
update_first_dataset(db, dataset_id, dq_status) ==
    IF dataset_id # 1 \/ dataset_id \notin 1..Len(db.datasets) THEN db
    ELSE [db EXCEPT !.datasets[dataset_id].dq_status = dq_status]

\* update_dataset (lines 97-123) with DatasetUpdate(dq_status=...)
update_dataset(db, dataset_id, dq_status) ==
    IF dataset_id \notin 1..Len(db.datasets) THEN db
    ELSE [db EXCEPT !.datasets[dataset_id].dq_status = dq_status]

\* lines 251-267
DatasetCreate(df, detected_type, column_mappings, mapping_config_id) ==
    [template_type |-> detected_type,
     mapping_config_id |-> mapping_config_id,
     row_count |-> df.nrows,
     column_count |-> Len(df.columns),
     column_mappings |-> column_mappings]

\* A store step that creates the dataset and never sets its DQ status.
CreateOnly(db, dataset_data, dq_status) == create_dataset(db, dataset_data)

\* lines 246-280: store or reuse the mapping config, create the dataset record,
\* then set its DQ status.
CreateAndUpdate(db, dataset_data, dq_status) ==
    update_dataset(create_dataset(db, dataset_data), Len(db.datasets) + 1, dq_status)

StoreWithConfig(config, df, detected_type, column_mappings, dq_status) ==
    CreateAndUpdate(config.db,
                    DatasetCreate(df, detected_type, column_mappings, config.id),
                    dq_status)

StoreDataset(db, df, detected_type, column_mappings, dq_status) ==
    StoreWithConfig(_get_or_create_mapping_config(db, detected_type, column_mappings),
                    df, detected_type, column_mappings, dq_status)

(***************************************************************************)
(* The uploaded files the pipeline is run on: sheets made of at most       *)
(* MaxCols of the pooled columns, over a few row counts, as a workbook or  *)
(* as a CSV file, and files that do not parse.                             *)
(***************************************************************************)
MaxCols == 4

DateCell(style, day) == [kind |-> "date", v |-> day, style |-> style, len |-> 10]

Num(v) == [kind |-> "num", v |-> v, style |-> "", len |-> 4]

Money(v) == [kind |-> "money", v |-> v, style |-> "", len |-> 9]

Code(v, len) == [kind |-> "code", v |-> v, style |-> "", len |-> len]

Text(v, len) == [kind |-> "text", v |-> v, style |-> "", len |-> len]

\* The pooled columns: a header as the file spells it, and the cell of each row.
\*   Date            ISO dates on consecutive days
\*   Trans_Date      dates a month apart, written day.month.year
\*   Description     words, repeating every third row
\*   Amount          amounts written with a currency sign
\*   Vendor          words; the header has a trailing space
\*   Invoice No      invoice codes of uneven length
\*   Account Number  account codes of one length
\*   Reference       a word in every third row, otherwise empty
ColumnPool ==
    << [name |-> <<"D", "a", "t", "e">>,
        cell |-> [r \in 1..30 |-> DateCell("%Y-%m-%d", 10 + r)]],
       [name |-> <<"T", "r", "a", "n", "s", "_", "D", "a", "t", "e">>,
        cell |-> [r \in 1..30 |-> DateCell(OtherDate, ((30 * r) % 360) + 1)]],
       [name |-> <<"D", "e", "s", "c", "r", "i", "p", "t", "i", "o", "n">>,
        cell |-> [r \in 1..30 |-> Text(r % 3, 4 + (r % 3))]],
       [name |-> <<"A", "m", "o", "u", "n", "t">>,
        cell |-> [r \in 1..30 |-> Money(100 * r)]],
       [name |-> <<"V", "e", "n", "d", "o", "r", " ">>,
        cell |-> [r \in 1..30 |-> Text(10 + (r % 2), 6)]],
       [name |-> <<"I", "n", "v", "o", "i", "c", "e", " ", "N", "o">>,
        cell |-> [r \in 1..30 |-> Code(r, 3 + 8 * (r % 2))]],
       [name |-> <<"A", "c", "c", "o", "u", "n", "t", " ", "N", "u", "m", "b", "e", "r">>,
        cell |-> [r \in 1..30 |-> Code(100 + r, 8)]],
       [name |-> <<"R", "e", "f", "e", "r", "e", "n", "c", "e">>,
        cell |-> [r \in 1..30 |-> IF r % 3 = 1 THEN Text(20 + r, 5) ELSE Null]] >>

\* Selections of at most n pooled columns, in pool order.
RECURSIVE Selections(_, _)
Selections(k, n) ==
    IF k > Len(ColumnPool) THEN {<<>>}
    ELSE Selections(k + 1, n)
         \cup (IF n = 0 THEN {} ELSE {<<k>> \o s : s \in Selections(k + 1, n - 1)})

Reverse(s) == [i \in 1..Len(s) |-> s[Len(s) + 1 - i]]

ColumnChoices == Selections(1, MaxCols) \cup {Reverse(s) : s \in Selections(1, MaxCols)}

\* The sheet with these columns and nrows rows; with blank, every cell holds an
\* NA marker.
Sheet(choice, nrows, blank) ==
    [columns |-> [i \in 1..Len(choice) |-> ColumnPool[choice[i]].name],
     data    |-> [i \in 1..Len(choice) |->
                    [r \in 1..nrows |-> IF blank THEN Null ELSE ColumnPool[choice[i]].cell[r]]],
     nrows   |-> nrows]

FewRows == 3

ManyRows == 12

Sheets ==
    {Sheet(choice, nrows, FALSE) : choice \in ColumnChoices, nrows \in {0, FewRows, ManyRows}}
    \cup {Sheet(choice, FewRows, TRUE) : choice \in ColumnChoices}

GoodFile(ext, delimiter, sheet) ==
    [exists |-> TRUE, ext |-> ext, readable |-> TRUE, delimiter |-> delimiter, sheet |-> sheet,
     reads |-> ReadsOf(delimiter, sheet)]

SampleSheet == Sheet(<<1, 3>>, FewRows, FALSE)

\* Files that fail before any table is read: missing, of an unsupported type,
\* corrupt, or separated by a character read_csv is not tried with.
BrokenFiles ==
    {[GoodFile(".xlsx", "", SampleSheet) EXCEPT !.exists = FALSE, !.readable = FALSE],
     GoodFile(".txt", ",", SampleSheet),
     [GoodFile(".xlsx", "", SampleSheet) EXCEPT !.readable = FALSE],
     GoodFile(".csv", ":", SampleSheet)}

Files ==
    {GoodFile(".xlsx", "", sheet) : sheet \in Sheets}
    \cup {GoodFile(".csv", ";", sheet) : sheet \in Sheets}
    \cup BrokenFiles

(***************************************************************************)
(* State.                                                                  *)
(***************************************************************************)
VARIABLES
    pc,               \* control point of the operation in progress
    analysis,         \* the analysis dict of _analyze_dataframe
    detection,        \* (template_type, confidence) returned by the detector
    source_columns,   \* argument of map_columns
    template_type,    \* argument of map_columns / validate_dataset
    mappings,         \* the dict returned by map_columns
    result,           \* the DQValidationResult being built
    calls,            \* the add_check calls made on result, in order
    file,             \* the uploaded file
    df,               \* the table read from it
    db,               \* mapping configs and datasets stored so far
    processing_results, \* the dict process_file_upload returns
    dataset,          \* the Dataset it returns, or None
    stages,           \* the stages the current run has entered, in order
    runs,             \* number of pipeline runs started
    previous,         \* what the first run of the pipeline returned
    sessions,         \* the database Sessions: per server process its place in
                      \* _get_or_create_mapping_config and the rows it has loaded
                      \* (SpecCache); the transaction of one upload (SpecUpload)
    fault             \* the database operation that raises in this upload, if any

pipeVars == <<file, df, db, processing_results, dataset, stages, runs, previous, sessions,
              fault>>

vars == <<pc, analysis, detection, source_columns, template_type, mappings, result, calls,
          pipeVars>>

Idle == "idle"

\* The pipeline's variables in the specifications of a single component.
PipeIdle ==
    /\ file = Idle /\ df = Idle /\ db = Idle /\ processing_results = Idle
    /\ dataset = Idle /\ stages = Idle /\ runs = Idle /\ previous = Idle
    /\ sessions = Idle /\ fault = Idle

(***************************************************************************)
(* Detection from every combination of signals (SpecDetect).               *)
(***************************************************************************)
MaxKindCols == 3
MaxEmptyCols == 2

RowCounts == {0, 1, 3, HighRowCount, HighRowCount + 1}

\* <<first, ..., first + n - 1>>
IndexList(first, n) == [i \in 1..n |-> first + i - 1]

\* The analyses _analyze_dataframe can produce: date, numeric and text columns
\* (and entirely empty ones, which get no tag), with the flags its guards allow.
Analyses ==
    {[date_columns        |-> IndexList(0, nd),
      numeric_columns     |-> IndexList(nd, nn),
      text_columns        |-> IndexList(nd + nn, nt),
      has_running_balance |-> rb,
      has_debit_credit    |-> dc,
      has_aging_buckets   |-> ag,
      has_account_numbers |-> acct,
      has_sequential_dates |-> sq,
      num_rows            |-> rows,
      num_columns         |-> nd + nn + nt + ne] :
        nd \in 0..MaxKindCols, nn \in 0..MaxKindCols, nt \in 0..MaxKindCols,
        ne \in 0..MaxEmptyCols, rows \in RowCounts,
        rb \in BOOLEAN, dc \in BOOLEAN, ag \in BOOLEAN, acct \in BOOLEAN, sq \in BOOLEAN}

ConsistentAnalysis(a) ==
    /\ a.num_rows = 0 => Len(a.date_columns) + Len(a.numeric_columns) + Len(a.text_columns) = 0
    /\ a.has_sequential_dates => Len(a.date_columns) >= 1 /\ a.num_rows >= 2
    /\ a.has_running_balance => Len(a.numeric_columns) >= 1 /\ a.num_rows >= 3
    /\ a.has_account_numbers => Len(a.text_columns) >= 1 /\ a.num_rows >= 2
    /\ a.has_debit_credit => Len(a.numeric_columns) >= 2
    /\ a.has_aging_buckets => Len(a.numeric_columns) >= 3

InitDetect ==
    /\ pc = "analyzed"
    /\ analysis \in {a \in Analyses : ConsistentAnalysis(a)}
    /\ detection = Idle
    /\ source_columns = Idle /\ template_type = Idle /\ mappings = Idle
    /\ result = Idle /\ calls = Idle
    /\ PipeIdle

Detect ==
    /\ pc = "analyzed"
    /\ detection' = detect_from_analysis(analysis)
    /\ pc' = "detected"
    /\ UNCHANGED <<analysis, source_columns, template_type, mappings, result, calls, pipeVars>>

NextDetect == Detect

SpecDetect == InitDetect /\ [][NextDetect]_vars

MaxScore(a) == Scores(a)[MaxItem(Scores(a))]

\* C3: a type is never returned with confidence below 0.3: when the highest of the
\* five scores is below 0.3 the result is (None, 0.0), and a returned type comes
\* with its own score, which lies in [0.3, 1].
C3_ThresholdRespected ==
    pc = "detected" =>
        /\ (\A t \in TemplateTypes : DLess(Scores(analysis)[t], DLit(3, 10)))
              => detection = [template_type |-> NoneValue, confidence |-> DZero]
        /\ detection.template_type # NoneValue =>
              /\ detection.template_type \in TemplateTypes
              /\ detection.confidence = Scores(analysis)[detection.template_type]
              /\ DLeq(DLit(3, 10), detection.confidence)
              /\ DLeq(detection.confidence, DLit(1, 1))

\* C3 witness: a non-empty table whose best score is positive but below 0.3 was
\* scored, and no type was returned.
C3_Witness ==
    /\ pc = "detected"
    /\ analysis.num_rows > 0
    /\ \E t \in TemplateTypes : DLess(DZero, Scores(analysis)[t])
    /\ \A t \in TemplateTypes : DLess(Scores(analysis)[t], DLit(3, 10))
    /\ detection.template_type = NoneValue

(***************************************************************************)
(* map_columns on every short list of pooled column names (SpecMap).       *)
(***************************************************************************)
MaxSourceCols == 3

\* All sequences over S of length at most n
RECURSIVE SeqsUpTo(_, _)
SeqsUpTo(S, n) ==
    IF n = 0 THEN {<<>>}
    ELSE LET shorter == SeqsUpTo(S, n - 1)
         IN  shorter \cup {Append(s, x) : s \in {t \in shorter : Len(t) = n - 1}, x \in S}

InitMap ==
    /\ pc = "ready"
    /\ source_columns \in SeqsUpTo(HeaderPool, MaxSourceCols)
    /\ template_type \in TemplateTypes \cup {"Unknown"}
    /\ mappings = Idle
    /\ analysis = Idle /\ detection = Idle /\ result = Idle /\ calls = Idle
    /\ PipeIdle

MapColumns ==
    /\ pc = "ready"
    /\ mappings' = map_columns(source_columns, template_type)
    /\ pc' = "mapped"
    /\ UNCHANGED <<analysis, detection, source_columns, template_type, result, calls, pipeVars>>

NextMap == MapColumns

SpecMap == InitMap /\ [][NextMap]_vars

\* C4: the mapping returned by map_columns is injective on mapped fields: no two
\* distinct canonical fields are mapped to the same source column.
C4_MappingInjective ==
    pc = "mapped" =>
        \A i, j \in 1..Len(mappings) :
            (i # j /\ mappings[i].value # NoneColumn /\ mappings[j].value # NoneColumn)
                => mappings[i].value # mappings[j].value

\* C4 witness: a source column was mapped to one field although it also scores at
\* least the threshold for a later field of the schema.
C4_Witness ==
    /\ pc = "mapped"
    /\ template_type \in TemplateTypes
    /\ \E i, j \in 1..Len(mappings) :
          /\ i < j
          /\ mappings[i].value # NoneColumn
          /\ ~QLess(Similarity(mappings[i].value, TEMPLATE_SCHEMAS[template_type][j].patterns),
                    SIMILARITY_THRESHOLD)

\* C10: for a known template type the mapping has exactly the schema's canonical
\* fields as keys, in schema order; a field without a source column is present with
\* the unmapped marker, and a mapped one holds one of the given source columns.
C10_AllFieldsPresent ==
    (pc = "mapped" /\ template_type \in TemplateTypes) =>
        LET schema == TEMPLATE_SCHEMAS[template_type]
        IN  /\ Len(mappings) = Len(schema)
            /\ \A k \in 1..Len(schema) :
                  /\ mappings[k].key = schema[k].field
                  /\ \/ mappings[k].value = NoneColumn
                     \/ \E i \in 1..Len(source_columns) : source_columns[i] = mappings[k].value

\* C10 witness: a known type was mapped and some field found no source column.
C10_Witness ==
    /\ pc = "mapped"
    /\ template_type \in TemplateTypes
    /\ Len(source_columns) > 0
    /\ \E k \in 1..Len(mappings) : mappings[k].value = NoneColumn
    /\ \E k \in 1..Len(mappings) : mappings[k].value # NoneColumn

(***************************************************************************)
(* Building a report with add_check (SpecReport).                          *)
(***************************************************************************)
MaxCalls == 3

CheckNames == {"required_columns", "date_formats", "numeric_columns",
               "duplicates", "null_values", "row_count"}

Statuses == {"passed", "warning", "failed"}

InitReport ==
    /\ pc = "building"
    /\ result = NewResult
    /\ calls = <<>>
    /\ analysis = Idle /\ detection = Idle
    /\ source_columns = Idle /\ template_type = Idle /\ mappings = Idle
    /\ PipeIdle

AddCheck ==
    /\ pc = "building"
    /\ Len(calls) < MaxCalls
    /\ \E check_name \in CheckNames, status \in Statuses :
          /\ result' = add_check(result, check_name, status, <<>>)
          /\ calls' = Append(calls, [name |-> check_name, status |-> status])
    /\ UNCHANGED <<pc, analysis, detection, source_columns, template_type, mappings, pipeVars>>

NextReport == AddCheck

SpecReport == InitReport /\ [][NextReport]_vars

CountStatus(checks, status) == Cardinality({i \in 1..Len(checks) : checks[i].status = status})

DistinctNames(cs) == \A i, j \in 1..Len(cs) : i # j => cs[i].name # cs[j].name

\* C2: after add_check calls with distinct check names, error_count is the number
\* of checks whose status is failed and warning_count the number of checks whose
\* status is warning, in whatever order they were added.
C2_CountsMatchChecks ==
    (pc = "building" /\ DistinctNames(calls)) =>
        /\ result.error_count = CountStatus(result.checks, "failed")
        /\ result.warning_count = CountStatus(result.checks, "warning")

(***************************************************************************)
(* validate_dataset on the parsed tables, under every template type and    *)
(* the mappings map_columns gives for the table's own columns or for       *)
(* another list of columns (SpecValidate).                                 *)
(***************************************************************************)
ParsedTables == {parse_file(f).df : f \in {g \in Files : parse_file(g).ok}}

OtherColumns == <<<<"D", "a", "t", "e">>, <<"D", "e", "b", "i", "t">>,
                  <<"B", "a", "l", "a", "n", "c", "e">>>>

InitValidate ==
    /\ pc = "loaded"
    /\ df \in ParsedTables
    /\ template_type \in TemplateTypes \cup {"Unknown"}
    /\ mappings \in {map_columns(df.columns, template_type),
                     map_columns(df.columns, "BankStatement"),
                     map_columns(OtherColumns, template_type)}
    /\ result = Idle
    /\ analysis = Idle /\ detection = Idle /\ source_columns = Idle /\ calls = Idle
    /\ file = Idle /\ db = Idle /\ processing_results = Idle
    /\ dataset = Idle /\ stages = Idle /\ runs = Idle /\ previous = Idle
    /\ sessions = Idle /\ fault = Idle

Validate ==
    /\ pc = "loaded"
    /\ result' = validate_dataset(df, template_type, mappings)
    /\ pc' = "validated"
    /\ UNCHANGED <<analysis, detection, source_columns, template_type, mappings, calls,
                   pipeVars>>

NextValidate == Validate

SpecValidate == InitValidate /\ [][NextValidate]_vars

HasCheck(report, status) == \E i \in 1..Len(report.checks) : report.checks[i].status = status

\* C1: in every report validate_dataset returns, the status is failed exactly
\* when some check failed, warning exactly when no check failed and some check
\* warned, and passed otherwise.
C1_StatusFromChecks ==
    pc = "validated" =>
        /\ result.status = "failed" <=> HasCheck(result, "failed")
        /\ result.status = "warning" <=> (~HasCheck(result, "failed") /\ HasCheck(result, "warning"))
        /\ result.status = "passed" <=> (~HasCheck(result, "failed") /\ ~HasCheck(result, "warning"))

\* C1 witness: a report whose first check failed and in which a later check
\* warned and another passed; its status is failed.
C1_Witness ==
    /\ pc = "validated"
    /\ result.status = "failed"
    /\ result.checks[1].status = "failed"
    /\ HasCheck(result, "warning")
    /\ HasCheck(result, "passed")

(***************************************************************************)
(* process_file_upload (dataset_service.py, lines 150-289), run MaxRuns    *)
(* times on the same file against the same database (SpecPipe).  Each      *)
(* stage between two awaits is a step.                                     *)
(***************************************************************************)
MaxRuns == 2

StageOrder == <<"parse", "detect", "map", "validate", "store">>

InitPipe ==
    /\ pc = "parse"
    /\ file \in Files
    /\ db = EmptyDb
    /\ runs = 1
    /\ previous = NoneRecord
    /\ processing_results = NewProcessingResults
    /\ stages = <<>>
    /\ df = NoneRecord /\ analysis = NoneRecord /\ detection = NoneRecord
    /\ source_columns = <<NoneColumn>> /\ template_type = NoneValue
    /\ mappings = NoneMapping /\ result = NoneRecord /\ dataset = NoneRecord
    /\ calls = Idle /\ sessions = Idle /\ fault = Idle

\* Step 1 (lines 182-189): parse the file; an exception ends the run (287-289).
ParseStage ==
    /\ pc = "parse"
    /\ stages' = Append(stages, "parse")
    /\ IF parse_file(file).ok
       THEN /\ df' = parse_file(file).df
            /\ processing_results' = ParsingStep(processing_results, parse_file(file).df)
            /\ pc' = "detect"
       ELSE /\ processing_results' = ProcessingFailed(processing_results, parse_file(file).error)
            /\ pc' = "done"
            /\ UNCHANGED df
    /\ UNCHANGED <<sessions, fault, analysis, detection, source_columns, template_type, mappings, result,
                   calls, file, db, dataset, runs, previous>>

\* Step 2 (lines 191-206): detect the template type; no match ends the run.
DetectStage ==
    /\ pc = "detect"
    /\ stages' = Append(stages, "detect")
    /\ analysis' = _analyze_dataframe(df)
    /\ detection' = detect_from_dataframe(df)
    /\ template_type' = detect_from_dataframe(df).template_type
    /\ IF NotDetected(detect_from_dataframe(df).template_type)
       THEN /\ processing_results' = DetectionFailedStep(processing_results)
            /\ pc' = "done"
       ELSE /\ processing_results' = DetectionStep(processing_results, detect_from_dataframe(df))
            /\ pc' = "map"
    /\ UNCHANGED <<sessions, fault, source_columns, mappings, result, calls, file, df, db, dataset, runs,
                   previous>>

\* Step 3 (lines 208-233): map the columns and validate the mapping; missing
\* required columns end the run.
MapStage ==
    /\ pc = "map"
    /\ stages' = Append(stages, "map")
    /\ source_columns' = df.columns
    /\ mappings' = map_columns(df.columns, template_type)
    /\ IF validate_mappings(map_columns(df.columns, template_type), template_type).is_valid
       THEN /\ processing_results' =
                  MappingStep(processing_results, map_columns(df.columns, template_type))
            /\ pc' = "validate"
       ELSE /\ processing_results' =
                  MissingColumnsStep(
                      processing_results, map_columns(df.columns, template_type),
                      validate_mappings(map_columns(df.columns, template_type),
                                        template_type).missing_columns)
            /\ pc' = "done"
    /\ UNCHANGED <<sessions, fault, analysis, detection, template_type, result, calls, file, df, db, dataset,
                   runs, previous>>

\* Step 4 (lines 235-240): DQ validation; its findings do not end the run.
ValidateStage ==
    /\ pc = "validate"
    /\ stages' = Append(stages, "validate")
    /\ result' = validate_dataset(df, template_type, mappings)
    /\ processing_results' =
          ValidationStep(processing_results, validate_dataset(df, template_type, mappings))
    /\ pc' = "store"
    /\ UNCHANGED <<sessions, fault, analysis, detection, source_columns, template_type, mappings, calls, file,
                   df, db, dataset, runs, previous>>

\* Steps 5-8 (lines 242-285): store the mapping config and the dataset with its
\* DQ status, and return it.
StoreStage ==
    /\ pc = "store"
    /\ stages' = Append(stages, "store")
    /\ db' = StoreDataset(db, df, template_type, mappings, result.status)
    /\ dataset' = StoreDataset(db, df, template_type, mappings, result.status)
                     .datasets[Len(db.datasets) + 1]
    /\ processing_results' = SuccessStep(processing_results, Len(db.datasets) + 1)
    /\ pc' = "done"
    /\ UNCHANGED <<sessions, fault, analysis, detection, source_columns, template_type, mappings, result,
                   calls, file, df, runs, previous>>

\* What a run returned.
Returned ==
    [template_type |-> template_type, mappings |-> mappings,
     dq_status |-> IF result = NoneRecord THEN NoneValue ELSE result.status,
     dataset |-> dataset, processing_results |-> processing_results]

\* The same file is uploaded again.
RunAgain ==
    /\ pc = "done"
    /\ runs < MaxRuns
    /\ runs' = runs + 1
    /\ previous' = Returned
    /\ pc' = "parse"
    /\ processing_results' = NewProcessingResults
    /\ stages' = <<>>
    /\ df' = NoneRecord /\ analysis' = NoneRecord /\ detection' = NoneRecord
    /\ source_columns' = <<NoneColumn>> /\ template_type' = NoneValue
    /\ mappings' = NoneMapping /\ result' = NoneRecord /\ dataset' = NoneRecord
    /\ UNCHANGED <<sessions, fault, calls, file, db>>

NextPipe ==
    \/ ParseStage
    \/ DetectStage
    \/ MapStage
    \/ ValidateStage
    \/ StoreStage
    \/ RunAgain

SpecPipe == InitPipe /\ [][NextPipe]_vars

IsPrefix(s, t) == Len(s) <= Len(t) /\ \A i \in 1..Len(s) : s[i] = t[i]

\* (None, processing_results) with success False and at least one error.
FailedOutcome ==
    /\ dataset = NoneRecord
    /\ processing_results.success = FALSE
    /\ processing_results.dataset_id = NoneId
    /\ processing_results.errors # <<>>

\* C5: the stages of a run execute in the order parse, detect, map, validate;
\* a stage starts only after every earlier stage succeeded; a run that ends
\* after a failed parse, after a detection without a match or after missing
\* required columns ran no later stage and returned no dataset, success False
\* and a non-empty error list.
C5_StagesInOrder ==
    /\ IsPrefix(stages, StageOrder)
    /\ Len(stages) >= 2 => processing_results.parsing # NoneRecord
    /\ Len(stages) >= 3 => /\ template_type # NoneValue
                           /\ processing_results.template_detection # NoneRecord
    /\ Len(stages) >= 4 => /\ processing_results.column_mapping # NoneRecord
                           /\ validate_mappings(mappings, template_type).is_valid
    /\ pc \in {"map", "validate", "store"} => template_type # NoneValue
    /\ (pc = "done" /\ Len(stages) = 1) =>
            /\ ~parse_file(file).ok
            /\ FailedOutcome
    /\ (pc = "done" /\ Len(stages) = 2) =>
            /\ template_type = NoneValue
            /\ FailedOutcome
    /\ (pc = "done" /\ Len(stages) = 3) =>
            /\ ~validate_mappings(mappings, template_type).is_valid
            /\ result = NoneRecord
            /\ FailedOutcome

\* C5 witness: a run on a table with rows ended after detection found no match.
C5_Witness ==
    /\ pc = "done"
    /\ stages = <<"parse", "detect">>
    /\ df.nrows > 0
    /\ template_type = NoneValue
    /\ FailedOutcome

\* C6: parse_file never returns a zero-row table for a workbook, so detection
\* never runs on an empty table.
C6_NoEmptyWorkbookTable ==
    (file.ext \in EXCEL_EXTENSIONS /\ df # NoneRecord) => df.nrows > 0

\* C7: whenever validate_mappings reports missing required fields, the run ends
\* after the map stage with a failed column_mapping step that carries exactly
\* that list and the unchanged mapping; DQ validation did not run and no
\* dataset exists.
C7_MissingColumnsReported ==
    (Len(stages) >= 3 /\ ~validate_mappings(mappings, template_type).is_valid) =>
        /\ pc = "done"
        /\ stages = <<"parse", "detect", "map">>
        /\ processing_results.column_mapping.status = "failed"
        /\ processing_results.column_mapping.missing_columns =
              validate_mappings(mappings, template_type).missing_columns
        /\ processing_results.column_mapping.mappings = mappings
        /\ mappings = map_columns(df.columns, template_type)
        /\ processing_results.errors =
              <<ErrorItem("Missing required columns",
                          validate_mappings(mappings, template_type).missing_columns)>>
        /\ processing_results.dq_validation = NoneRecord
        /\ result = NoneRecord
        /\ dataset = NoneRecord
        /\ db.datasets = <<>>
        /\ processing_results.success = FALSE

\* C7 witness: AP_OpenItems was detected, no column maps to amount, and the run
\* ended reporting ["amount"].
C7_Witness ==
    /\ pc = "done"
    /\ template_type = "AP_OpenItems"
    /\ processing_results.column_mapping # NoneRecord
    /\ processing_results.column_mapping.status = "failed"
    /\ processing_results.column_mapping.missing_columns = <<"amount">>

NamesOf(report) == [i \in 1..Len(report.checks) |-> report.checks[i].name]

SixChecks ==
    <<"required_columns", "date_formats", "numeric_columns", "duplicates", "null_values",
      "row_count">>

\* C11: every report validate_dataset returns holds a result for each of the
\* six checks, added in the order required_columns, date_formats,
\* numeric_columns, duplicates, null_values, row_count.
C11_AllSixChecks ==
    pc = "validated" => NamesOf(result) = SixChecks

\* The i-th type has the highest score, and no type declared before it has it.
IsFirstBest(scores, i) ==
    /\ \A j \in 1..Len(TemplateOrder) :
          DLeq(scores[TemplateOrder[j]], scores[TemplateOrder[i]])
    /\ \A j \in 1..(i - 1) :
          DLess(scores[TemplateOrder[j]], scores[TemplateOrder[i]])

ReturnsFirstBest(scores, detected) ==
    \A i \in 1..Len(TemplateOrder) :
        (IsFirstBest(scores, i) /\ DLeq(DLit(3, 10), scores[TemplateOrder[i]])) =>
            detected = [template_type |-> TemplateOrder[i],
                        confidence |-> scores[TemplateOrder[i]]]

\* C12: when the highest of the five scores is at least 0.3, the type returned
\* is the one with that score that comes first in the order BankStatement,
\* TrialBalance, AP_OpenItems, AR_Aging, POS_Sales, with that score as confidence.
C12_FirstBestReturned ==
    pc = "detected" => ReturnsFirstBest(Scores(analysis), detection)

TiedBest(scores, detected) ==
    \E i \in 1..Len(TemplateOrder) : \E j \in (i + 1)..Len(TemplateOrder) :
        /\ IsFirstBest(scores, i)
        /\ scores[TemplateOrder[j]] = scores[TemplateOrder[i]]
        /\ DLeq(DLit(3, 10), scores[TemplateOrder[i]])
        /\ detected.template_type = TemplateOrder[i]

\* C12 witness: two types share the highest score, which is at least 0.3, and
\* the one declared first was returned.
C12_Witness ==
    pc = "detected" /\ TiedBest(Scores(analysis), detection)

\* The weights of the evidence table, in hundredths.
Weight(holds, hundredths) == IF holds THEN hundredths ELSE 0

Between(n, low, high) == low <= n /\ n <= high

TableScore(a, t) ==
    CASE t = "BankStatement" ->
            Weight(Len(a.date_columns) >= 1, 30) + Weight(a.has_sequential_dates, 20)
            + Weight(a.has_running_balance, 20) + Weight(Len(a.text_columns) >= 1, 10)
            + Weight(Between(Len(a.numeric_columns), 1, 3), 10)
            + Weight(Between(a.num_columns, 3, 6), 10)
      [] t = "TrialBalance" ->
            IF a.has_sequential_dates THEN 0
            ELSE Weight(a.has_account_numbers, 30) + Weight(a.has_debit_credit, 40)
                 + Weight(Len(a.text_columns) >= 1, 15)
                 + Weight(Between(a.num_columns, 3, 5), 15)
      [] t = "AP_OpenItems" ->
            Weight(Len(a.date_columns) >= 1, 20) + Weight(Len(a.text_columns) >= 1, 25)
            + Weight(a.has_aging_buckets, 30) + Weight(Len(a.numeric_columns) >= 2, 15)
            + Weight(Between(a.num_columns, 4, 8), 10)
      [] t = "AR_Aging" ->
            Weight(Len(a.date_columns) >= 1, 20) + Weight(Len(a.text_columns) >= 1, 25)
            + Weight(a.has_aging_buckets, 35) + Weight(Len(a.numeric_columns) >= 2, 10)
            + Weight(Between(a.num_columns, 4, 8), 10)
      [] t = "POS_Sales" ->
            IF Len(a.date_columns) = 0 THEN 0
            ELSE 20 + Weight(Len(a.text_columns) >= 2, 20)
                 + Weight(Len(a.numeric_columns) >= 2, 20)
                 + Weight(a.num_rows > 100, 20) + Weight(Between(a.num_columns, 4, 10), 20)

\* The table, with BankStatement also scoring 0 without a date column.
AmendedTableScore(a, t) ==
    IF t = "BankStatement" /\ Len(a.date_columns) = 0 THEN 0 ELSE TableScore(a, t)

\* The binary64 score s is n hundredths, up to the rounding of the float sums.
IsHundredths(s, n) ==
    IF n = 0 THEN s = DZero
    ELSE /\ DLess(DLit(2 * n - 1, 200), s)
         /\ DLeq(s, DOne)
         /\ n < 100 => DLess(s, DLit(2 * n + 1, 200))

\* C13 as claimed: every score is the sum of the table's weights for the
\* evidence that holds, zero being forced only for TrialBalance with sequential
\* dates and POS_Sales without a date column; every score lies in [0, 1].
C13_ScoresFollowTable ==
    pc = "detected" =>
        \A t \in TemplateTypes :
            /\ IsHundredths(Scores(analysis)[t], TableScore(analysis, t))
            /\ DLeq(Scores(analysis)[t], DOne)

\* C13 amended: as claimed, except that BankStatement also scores 0 when the
\* table has no date column.
C13_ScoresFollowAmendedTable ==
    pc = "detected" =>
        \A t \in TemplateTypes :
            /\ IsHundredths(Scores(analysis)[t], AmendedTableScore(analysis, t))
            /\ DLeq(Scores(analysis)[t], DOne)

\* C13 witness: a table without a date column that has a running balance and a
\* text column scored 0 as BankStatement, and more than 0 as another type.
C13_Witness ==
    /\ pc = "detected"
    /\ Len(analysis.date_columns) = 0
    /\ analysis.has_running_balance
    /\ Len(analysis.text_columns) >= 1
    /\ Scores(analysis)["BankStatement"] = DZero
    /\ TableScore(analysis, "BankStatement") >= 30
    /\ \E t \in TemplateTypes : DLess(DZero, Scores(analysis)[t])

(***************************************************************************)
(* parse_file on delimited text for which each delimiter gives a table of  *)
(* its own, an unusable table or an exception (SpecCsv).                   *)
(***************************************************************************)
\* The columns read with the k-th delimiter; Vendor has a trailing space.
CsvChoice(k) == <<<<1, 3>>, <<5, 4>>, <<3, 4, 5>>, <<6, 5>>>>[k]

CsvReads(k) ==
    {Raises,
     Reads(OneColumn(SampleSheet)),
     Reads(Sheet(CsvChoice(k), FewRows, FALSE)),
     Reads(Sheet(CsvChoice(k), FewRows, TRUE)),
     Reads(Sheet(CsvChoice(k), 0, FALSE))}

CsvFiles ==
    {[GoodFile(".csv", ",", SampleSheet) EXCEPT
         !.reads = [d \in DOMAIN @ |->
                      CASE d = delimiters[1] -> r1 [] d = delimiters[2] -> r2
                        [] d = delimiters[3] -> r3 [] d = delimiters[4] -> r4]] :
        r1 \in CsvReads(1), r2 \in CsvReads(2), r3 \in CsvReads(3), r4 \in CsvReads(4)}

InitCsv ==
    /\ pc = "uploaded"
    /\ file \in CsvFiles
    /\ df = NoneRecord
    /\ analysis = Idle /\ detection = Idle /\ source_columns = Idle /\ template_type = Idle
    /\ mappings = Idle /\ result = Idle /\ calls = Idle
    /\ db = Idle /\ processing_results = Idle /\ dataset = Idle /\ stages = Idle
    /\ runs = Idle /\ previous = Idle /\ sessions = Idle /\ fault = Idle

\* parse_file returns a table or raises.
ParseFile ==
    /\ pc = "uploaded"
    /\ pc' = IF parse_file(file).ok THEN "returned" ELSE parse_file(file).error
    /\ df' = IF parse_file(file).ok THEN parse_file(file).df ELSE df
    /\ UNCHANGED <<sessions, fault, analysis, detection, source_columns, template_type, mappings, result,
                   calls, file, db, processing_results, dataset, stages, runs, previous>>

NextCsv == ParseFile

SpecCsv == InitCsv /\ [][NextCsv]_vars

CommaSemicolonTabPipe == <<",", ";", "\t", "|">>

\* The table read with the k-th delimiter has more than one column and a row
\* with a value in it.
Usable(reads, k) ==
    /\ ~reads[CommaSemicolonTabPipe[k]].raises
    /\ Len(reads[CommaSemicolonTabPipe[k]].df.columns) > 1
    /\ \E r \in 1..reads[CommaSemicolonTabPipe[k]].df.nrows :
          \E c \in 1..Len(reads[CommaSemicolonTabPipe[k]].df.columns) :
              reads[CommaSemicolonTabPipe[k]].df.data[c][r] # Null

\* C14: parse_file returns the table of the first of comma, semicolon, tab,
\* pipe whose table has more than one column and a non-empty row, with trimmed
\* headers and without empty rows, whatever the earlier delimiters gave; when
\* no delimiter gives such a table it raises FileParseError.
C14_FirstUsableDelimiter ==
    pc # "uploaded" =>
        /\ \A k \in 1..4 :
              (Usable(file.reads, k) /\ \A j \in 1..(k - 1) : ~Usable(file.reads, j)) =>
                  /\ pc = "returned"
                  /\ df = DropEmptyRows(StripColumns(file.reads[CommaSemicolonTabPipe[k]].df))
                  /\ df.nrows > 0
                  /\ \A c \in 1..Len(df.columns) : df.columns[c] = Strip(df.columns[c])
        /\ (\A k \in 1..4 : ~Usable(file.reads, k)) =>
              pc = "FileParseError" /\ df = NoneRecord

\* C14 witness: comma raised, semicolon gave one column, tab gave a table with
\* empty rows only, and the table read with pipe was returned.
C14_Witness ==
    /\ pc = "returned"
    /\ file.reads[","].raises
    /\ ~file.reads[";"].raises /\ Len(file.reads[";"].df.columns) = 1
    /\ ~file.reads["\t"].raises /\ Len(file.reads["\t"].df.columns) > 1
    /\ ~Usable(file.reads, 3)
    /\ df = DropEmptyRows(StripColumns(file.reads["|"].df))
    /\ df.columns # file.reads["|"].df.columns

(***************************************************************************)
(* _get_or_create_mapping_config called by MaxWorkers server processes at  *)
(* once, each with its own Session, for the same tenant, template type and *)
(* column mapping (SpecCache).  A process takes a step at each database    *)
(* statement: the query, then the write with its commit.                   *)
(***************************************************************************)
MaxWorkers == 3

Workers == 1..MaxWorkers

\* The mappings of two uploads: all pooled amount columns, or a date only.
CacheHeaders == {<<ColumnPool[1].name, ColumnPool[3].name, ColumnPool[4].name>>,
                 <<ColumnPool[1].name>>}

\* A config stored for another mapping of the same template type.
OtherConfig(detected_type) ==
    [template_type |-> detected_type,
     column_mappings |-> map_columns(<<ColumnPool[5].name>>, detected_type),
     use_count |-> 1]

InitCache ==
    /\ pc = "serving"
    /\ template_type \in TemplateTypes
    /\ mappings \in {map_columns(headers, template_type) : headers \in CacheHeaders}
    /\ db \in {EmptyDb, [EmptyDb EXCEPT !.mapping_configs = <<OtherConfig(template_type)>>]}
    /\ sessions = [w \in Workers |-> [pc |-> "query", existing |-> <<>>]]
    /\ analysis = Idle /\ detection = Idle /\ source_columns = Idle
    /\ result = Idle /\ calls = Idle /\ file = Idle /\ df = Idle
    /\ processing_results = Idle /\ dataset = Idle /\ stages = Idle
    /\ runs = Idle /\ previous = Idle /\ fault = Idle

\* existing = db.query(MappingConfig).filter(...).all()
QueryConfigs(w) ==
    /\ sessions[w].pc = "query"
    /\ sessions' = [sessions EXCEPT ![w] = [pc |-> "write",
                                             existing |-> LoadedConfigs(db, template_type)]]
    /\ UNCHANGED <<pc, analysis, detection, source_columns, template_type, mappings, result,
                   calls, file, df, db, processing_results, dataset, stages, runs, previous,
                   fault>>

\* the loop over existing, or the insert, and db.commit()
WriteConfig(w) ==
    /\ sessions[w].pc = "write"
    /\ db' = SaveConfig(db, sessions[w].existing, template_type, mappings)
    /\ sessions' = [sessions EXCEPT ![w].pc = "done"]
    /\ UNCHANGED <<pc, analysis, detection, source_columns, template_type, mappings, result,
                   calls, file, df, processing_results, dataset, stages, runs, previous,
                   fault>>

NextCache == \E w \in Workers : QueryConfigs(w) \/ WriteConfig(w)

SpecCache == InitCache /\ [][NextCache]_vars

\* C15: once every run has finished there is exactly one stored config for the
\* mapping, and its use_count is the number of runs.
C15_OneConfigCountsRuns ==
    (\A w \in Workers : sessions[w].pc = "done") =>
        /\ Cardinality(MatchingConfigs(db, template_type, mappings)) = 1
        /\ \A i \in MatchingConfigs(db, template_type, mappings) :
              db.mapping_configs[i].use_count = MaxWorkers

\* Every piece of BankStatement evidence of the table holds.
AllBankStatementEvidence(a) ==
    /\ Len(a.date_columns) >= 1
    /\ a.has_sequential_dates
    /\ a.has_running_balance
    /\ Len(a.text_columns) >= 1
    /\ Between(Len(a.numeric_columns), 1, 3)
    /\ Between(a.num_columns, 3, 6)

\* C16: when all BankStatement evidence holds, the detector returns
\* BankStatement with confidence at least 0.7.
C16_BankStatementWins ==
    (pc = "detected" /\ AllBankStatementEvidence(analysis)) =>
        /\ detection.template_type = "BankStatement"
        /\ DLeq(DLit(7, 10), detection.confidence)


(***************************************************************************)
(* The upload endpoint around the pipeline (SpecUpload): upload_file runs  *)
(* process_file_upload on one Session and commits or rolls back after it.  *)
(* db is the database as the Session sees it, sessions.committed the state *)
(* of the last db.commit(), sessions.begin the database when processing    *)
(* started.  fault names the database operation that raises in this        *)
(* upload: the statement has been issued and its commit fails.             *)
(***************************************************************************)
Faults == {"none", "config", "create", "update", "respond"}

NewSession(database) ==
    [begin |-> database, committed |-> database, mapping_config_id |-> NoneId]

\* db.commit()
Commit(session, database) == [session EXCEPT !.committed = database]

\* The uploads: a workbook of FewRows rows for every choice of columns, and the
\* files that do not parse.
UploadedFiles ==
    {GoodFile(".xlsx", "", Sheet(choice, FewRows, FALSE)) : choice \in ColumnChoices}
    \cup BrokenFiles

InitUpload ==
    /\ pc = "parse"
    /\ file \in UploadedFiles
    /\ fault \in Faults
    /\ db = EmptyDb
    /\ sessions = NewSession(EmptyDb)
    /\ runs = 1
    /\ previous = NoneRecord
    /\ processing_results = NewProcessingResults
    /\ stages = <<>>
    /\ df = NoneRecord /\ analysis = NoneRecord /\ detection = NoneRecord
    /\ source_columns = <<NoneColumn>> /\ template_type = NoneValue
    /\ mappings = NoneMapping /\ result = NoneRecord /\ dataset = NoneRecord
    /\ calls = Idle

\* Step 6 (dataset_service.py lines 245-248): _get_or_create_mapping_config
\* changes the config and commits (lines 326, 344); an exception is caught at
\* lines 287-289.
StoreConfig ==
    /\ pc = "store"
    /\ stages' = Append(stages, "store")
    /\ db' = _get_or_create_mapping_config(db, template_type, mappings).db
    /\ IF fault = "config"
       THEN /\ processing_results' = ProcessingFailed(processing_results, "DatabaseError")
            /\ pc' = "done"
            /\ UNCHANGED sessions
       ELSE /\ sessions' =
                  [Commit(sessions, _get_or_create_mapping_config(db, template_type, mappings).db)
                      EXCEPT !.mapping_config_id =
                          _get_or_create_mapping_config(db, template_type, mappings).id]
            /\ pc' = "create"
            /\ UNCHANGED processing_results
    /\ UNCHANGED <<fault, analysis, detection, source_columns, template_type, mappings, result,
                   calls, file, df, dataset, runs, previous>>

\* Step 7 (lines 250-269): create_dataset adds the row and commits (lines 73-74).
CreateDataset ==
    /\ pc = "create"
    /\ db' = create_dataset(db, DatasetCreate(df, template_type, mappings,
                                             sessions.mapping_config_id))
    /\ IF fault = "create"
       THEN /\ processing_results' = ProcessingFailed(processing_results, "DatabaseError")
            /\ pc' = "done"
            /\ UNCHANGED <<sessions, dataset>>
       ELSE /\ sessions' =
                  Commit(sessions,
                         create_dataset(db, DatasetCreate(df, template_type, mappings,
                                                          sessions.mapping_config_id)))
            /\ dataset' =
                  create_dataset(db, DatasetCreate(df, template_type, mappings,
                                                   sessions.mapping_config_id))
                     .datasets[Len(db.datasets) + 1]
            /\ pc' = "update"
            /\ UNCHANGED processing_results
    /\ UNCHANGED <<fault, analysis, detection, source_columns, template_type, mappings, result,
                   calls, file, df, stages, runs, previous>>

\* Step 8 (lines 271-285): update_dataset sets the DQ status and commits
\* (lines 121-122); the dataset is returned.
UpdateDataset ==
    /\ pc = "update"
    /\ db' = update_dataset(db, dataset.id, result.status)
    /\ IF fault = "update"
       THEN /\ processing_results' = ProcessingFailed(processing_results, "DatabaseError")
            /\ dataset' = NoneRecord
            /\ UNCHANGED sessions
       ELSE /\ sessions' = Commit(sessions, update_dataset(db, dataset.id, result.status))
            /\ dataset' = update_dataset(db, dataset.id, result.status).datasets[dataset.id]
            /\ processing_results' = SuccessStep(processing_results, dataset.id)
    /\ pc' = "done"
    /\ UNCHANGED <<fault, analysis, detection, source_columns, template_type, mappings, result,
                   calls, file, df, stages, runs, previous>>

\* upload_file after process_file_upload returned (api/intake.py lines 125-201):
\* with a dataset the upload is completed and committed, unless the status
\* update or the audit log raises; without one, and on an exception, the Session
\* is rolled back and the upload is marked failed.  pc is the status of the
\* file upload.
Respond ==
    /\ pc = "done"
    /\ IF dataset # NoneRecord /\ fault # "respond"
       THEN /\ sessions' = Commit(sessions, db)
            /\ pc' = "completed"
            /\ UNCHANGED db
       ELSE /\ db' = sessions.committed
            /\ pc' = "failed"
            /\ UNCHANGED sessions
    /\ UNCHANGED <<fault, analysis, detection, source_columns, template_type, mappings, result,
                   calls, file, df, processing_results, dataset, stages, runs, previous>>

\* The same file is uploaded again, on a new Session.
UploadAgain ==
    /\ pc \in {"completed", "failed"}
    /\ runs < MaxRuns
    /\ runs' = runs + 1
    /\ fault' \in Faults
    /\ sessions' = NewSession(db)
    /\ previous' = Returned
    /\ pc' = "parse"
    /\ processing_results' = NewProcessingResults
    /\ stages' = <<>>
    /\ df' = NoneRecord /\ analysis' = NoneRecord /\ detection' = NoneRecord
    /\ source_columns' = <<NoneColumn>> /\ template_type' = NoneValue
    /\ mappings' = NoneMapping /\ result' = NoneRecord /\ dataset' = NoneRecord
    /\ UNCHANGED <<calls, file, db>>

NextUpload ==
    \/ ParseStage
    \/ DetectStage
    \/ MapStage
    \/ ValidateStage
    \/ StoreConfig
    \/ CreateDataset
    \/ UpdateDataset
    \/ Respond
    \/ UploadAgain

SpecUpload == InitUpload /\ [][NextUpload]_vars

\* C17: an upload whose processing failed leaves the database as it was when
\* the processing started: no dataset row, no new mapping config and no
\* incremented use_count persists.
C17_FailedUploadLeavesNoTrace ==
    pc = "failed" => sessions.committed = sessions.begin /\ db = sessions.begin


\* failed > warning > passed over the checks a report holds
WorstStored(report) ==
    IF HasCheck(report, "failed") THEN "failed"
    ELSE IF HasCheck(report, "warning") THEN "warning"
    ELSE "passed"

\* C18: after any sequence of add_check calls, reused check names included, the
\* status of the report is the worst status among the checks it holds.
C18_StatusIsWorstStored ==
    pc = "building" => result.status = WorstStored(result)


\* The source columns already mapped to the fields before field k.
UsedBefore(mapping, k) ==
    {mapping[j].value : j \in {i \in 1..(k - 1) : mapping[i].value # NoneColumn}}

\* The positions of the source columns that are not yet used and score at least
\* the threshold for the patterns.
Candidates(columns, patterns, used) ==
    {i \in 1..Len(columns) :
        /\ columns[i] \notin used
        /\ ~QLess(Similarity(columns[i], patterns), SIMILARITY_THRESHOLD)}

\* The earliest of the positions with the highest score.
EarliestBest(columns, patterns, positions) ==
    CHOOSE i \in positions :
        \A j \in positions :
            \/ QLess(Similarity(columns[j], patterns), Similarity(columns[i], patterns))
            \/ (QEq(Similarity(columns[j], patterns), Similarity(columns[i], patterns)) /\ i <= j)

\* The value the field with these patterns gets.
ExpectedSource(columns, patterns, used) ==
    IF Candidates(columns, patterns, used) = {} THEN NoneColumn
    ELSE columns[EarliestBest(columns, patterns, Candidates(columns, patterns, used))]

\* C19: map_columns gives every field, in schema order, the earliest of the
\* best-scoring source columns that are not yet used and score at least 0.6, and
\* leaves a field unmapped only when there is no such column; empty and
\* whitespace-only source names included.
C19_BestUnusedColumnMapped ==
    (pc = "mapped" /\ template_type \in TemplateTypes) =>
        \A k \in 1..Len(mappings) :
            mappings[k].value =
                ExpectedSource(source_columns, TEMPLATE_SCHEMAS[template_type][k].patterns,
                               UsedBefore(mappings, k))


\* The similarity to one synonym as three exclusive cases: equal normalized
\* forms, one a substring of the other, neither.
CaseSimilarity(normalized_source, normalized_pattern, substring_score) ==
    IF normalized_source = normalized_pattern THEN QOne
    ELSE IF IsSubstring(normalized_pattern, normalized_source)
            \/ IsSubstring(normalized_source, normalized_pattern)
    THEN substring_score
    ELSE SequenceRatio(normalized_source, normalized_pattern)

\* Exactly 0.9 for a substring.
ExactSimilarity(normalized_source, normalized_pattern) ==
    CaseSimilarity(normalized_source, normalized_pattern, QSubstring)

\* The larger of 0.9 and the sequence ratio for a substring.
AtLeastSimilarity(normalized_source, normalized_pattern) ==
    CaseSimilarity(normalized_source, normalized_pattern,
                   QMax(QSubstring, SequenceRatio(normalized_source, normalized_pattern)))

QMaxOf(scores) == CHOOSE x \in scores : \A y \in scores : ~QLess(x, y)

\* The maximum over the synonyms, for the pooled column names and the pattern
\* lists of the catalog.
ExactScores ==
    [h \in HeaderPool |-> [p \in AllPatternLists |->
        QMaxOf({ExactSimilarity(normalize_column_name(h), normalize_column_name(p[i])) :
                   i \in 1..Len(p)})]]

AtLeastScores ==
    [h \in HeaderPool |-> [p \in AllPatternLists |->
        QMaxOf({AtLeastSimilarity(normalize_column_name(h), normalize_column_name(p[i])) :
                   i \in 1..Len(p)})]]

\* C20 as stated: the score of every source column for every field is the
\* maximum over the field's synonyms of 1.0 for equal normalized forms, exactly
\* 0.9 for a substring, and the sequence ratio otherwise.
C20_ExactSubstringScore ==
    (pc = "mapped" /\ template_type \in TemplateTypes) =>
        \A i \in 1..Len(source_columns), k \in 1..Len(TEMPLATE_SCHEMAS[template_type]) :
            QEq(Similarity(source_columns[i], TEMPLATE_SCHEMAS[template_type][k].patterns),
                ExactScores[source_columns[i]][TEMPLATE_SCHEMAS[template_type][k].patterns])

\* C20, amended: the score of every source column for every field is the
\* maximum over the field's synonyms of 1.0 for equal normalized forms, the
\* larger of 0.9 and the sequence ratio for a substring, and the sequence ratio
\* otherwise.
C20_SubstringScoreAtLeast ==
    (pc = "mapped" /\ template_type \in TemplateTypes) =>
        \A i \in 1..Len(source_columns), k \in 1..Len(TEMPLATE_SCHEMAS[template_type]) :
            QEq(Similarity(source_columns[i], TEMPLATE_SCHEMAS[template_type][k].patterns),
                AtLeastScores[source_columns[i]][TEMPLATE_SCHEMAS[template_type][k].patterns])

\* C20 witness: a source column that equals no synonym of a field and contains
\* one of them scores more than 0.9 and less than 1.0 for that field.
C20_Witness ==
    /\ pc = "mapped"
    /\ template_type \in TemplateTypes
    /\ \E i \in 1..Len(source_columns), k \in 1..Len(TEMPLATE_SCHEMAS[template_type]) :
          /\ \E j \in 1..Len(TEMPLATE_SCHEMAS[template_type][k].patterns) :
                IsSubstring(normalize_column_name(TEMPLATE_SCHEMAS[template_type][k].patterns[j]),
                            normalize_column_name(source_columns[i]))
          /\ QLess(QSubstring,
                   Similarity(source_columns[i], TEMPLATE_SCHEMAS[template_type][k].patterns))
          /\ QLess(Similarity(source_columns[i], TEMPLATE_SCHEMAS[template_type][k].patterns),
                   QOne)


(***************************************************************************)
(* Column analysis on tables of built columns (SpecAnalyze): a column is   *)
(* some cells of one kind and some words, in either order, after at most   *)
(* one empty cell and padded with empty cells to the height of the table.  *)
(***************************************************************************)
MaxCells == 12

SampleSize == 10

CellKinds == {"date", "num", "money", "code"}

CellOf(kind, r) ==
    CASE kind = "date"  -> DateCell("%Y-%m-%d", 10 + r)
      [] kind = "num"   -> Num(r)
      [] kind = "money" -> Money(r)
      [] kind = "code"  -> Code(r, 8)
      [] OTHER          -> Text(r % 3, 5)

\* good cells of the kind and bad words, the words first when words_first.
BuiltCells(kind, good, bad, words_first, lead) ==
    [r \in 1..(MaxCells + 1) |->
        IF r <= lead \/ r > lead + good + bad THEN Null
        ELSE IF words_first
        THEN (IF r - lead <= bad THEN CellOf("text", r) ELSE CellOf(kind, r))
        ELSE (IF r - lead <= good THEN CellOf(kind, r) ELSE CellOf("text", r))]

BuiltColumns ==
    {BuiltCells(kind, good, bad, words_first, lead) :
        kind \in CellKinds,
        good \in 0..MaxCells,
        bad \in 0..MaxCells,
        words_first \in BOOLEAN,
        lead \in 0..1}

\* The columns a built column is put next to: an empty column, ISO dates,
\* amounts with a currency sign, and codes.
SideColumns ==
    {BuiltCells("date", 0, 0, FALSE, 0), BuiltCells("date", 5, 0, FALSE, 0),
     BuiltCells("money", 5, 0, FALSE, 0), BuiltCells("code", 5, 0, FALSE, 0)}

ColumnNames == <<<<"D", "a", "t", "e">>, <<"A", "m", "o", "u", "n", "t">>>>

TableOf(cols) ==
    [columns |-> SubSeq(ColumnNames, 1, Len(cols)), data |-> cols, nrows |-> MaxCells + 1]

BuiltTables ==
    {TableOf(<<c>>) : c \in {b \in BuiltColumns : CountNotNa(b) <= MaxCells}}
    \cup {TableOf(<<c, e>>) : c \in {b \in BuiltColumns : CountNotNa(b) <= MaxCells},
                              e \in SideColumns}
    \cup {TableOf(<<e, c>>) : c \in {b \in BuiltColumns : CountNotNa(b) <= MaxCells},
                              e \in SideColumns}

InitAnalyze ==
    /\ pc = "table"
    /\ df \in BuiltTables
    /\ analysis = NoneRecord
    /\ detection = NoneRecord
    /\ source_columns = Idle /\ template_type = Idle /\ mappings = Idle
    /\ result = Idle /\ calls = Idle
    /\ file = Idle /\ db = Idle /\ processing_results = Idle
    /\ dataset = Idle /\ stages = Idle /\ runs = Idle /\ previous = Idle
    /\ sessions = Idle /\ fault = Idle

\* detect_from_dataframe (lines 30-71): analyze the columns, score, pick.
AnalyzeTable ==
    /\ pc = "table"
    /\ analysis' = _analyze_dataframe(df)
    /\ detection' = detect_from_dataframe(df)
    /\ pc' = "tagged"
    /\ UNCHANGED <<source_columns, template_type, mappings, result, calls, pipeVars>>

NextAnalyze == AnalyzeTable

SpecAnalyze == InitAnalyze /\ [][NextAnalyze]_vars

InSeq(x, s) == \E i \in 1..Len(s) : s[i] = x

\* The sampled values of a column: its first up to SampleSize non-empty cells.
SampleOf(cells) == head(dropna(cells), SampleSize)

DatesIn(cells) == CountDates(SampleOf(cells), is_numeric_dtype(cells))

NumbersIn(cells) == CountCleanedNumbers(SampleOf(cells))

\* count of n values is at least / more than 70%
AtLeast70(count, n) == n > 0 /\ 10 * count >= 7 * n

MoreThan70(count, n) == n > 0 /\ 10 * count > 7 * n

MaxDates == 5

DateStyles == {DATE_FORMATS[k] : k \in 1..Len(DATE_FORMATS)} \cup {NativeDate, OtherDate}

SecondStyles == {"%Y-%m-%d", "%d/%m/%Y", OtherDate, "text"}

StyledCell(style, day) == IF style = "text" THEN Text(day % 3, 5) ELSE DateCell(style, day)

\* first cells in one style, then second cells in the other, from day + 1 on.
DateCells(style, first, other, second, day) ==
    [r \in 1..(MaxDates + 1) |->
        IF r <= first THEN StyledCell(style, day + r)
        ELSE IF r <= first + second THEN StyledCell(other, day + r)
        ELSE Null]

DateColumns ==
    {DateCells(style, first, other, second, day) :
        style \in DateStyles, first \in 0..MaxDates, other \in SecondStyles,
        second \in 0..MaxDates, day \in {0, 12}}

DueDateColumns ==
    {DateCells("%Y-%m-%d", MaxDates, "text", 0, 0), DateCells(OtherDate, MaxDates, "text", 0, 0),
     DateCells("%Y-%m-%d", 0, "text", 0, 0)}

DateTable(names, cols) == [columns |-> names, data |-> cols, nrows |-> MaxDates + 1]

\* The headers of a table of one date column and of one with two.
DateHeaders ==
    <<<<<<"D", "a", "t", "e">>>>,
      <<<<"D", "a", "t", "e">>, <<"T", "r", "a", "n", "s", "_", "D", "a", "t", "e">>>>>>

DateTables ==
    {DateTable(DateHeaders[1], <<c>>) : c \in {x \in DateColumns : CountNotNa(x) <= MaxDates}}
    \cup {DateTable(DateHeaders[2], <<c, e>>) :
             c \in {x \in DateColumns : CountNotNa(x) <= MaxDates}, e \in DueDateColumns}

InitDates ==
    /\ pc = "loaded"
    /\ df \in DateTables
    /\ template_type \in {"BankStatement", "AP_OpenItems"}
    /\ mappings = map_columns(df.columns, template_type)
    /\ result = Idle
    /\ analysis = Idle /\ detection = Idle /\ source_columns = Idle /\ calls = Idle
    /\ file = Idle /\ db = Idle /\ processing_results = Idle
    /\ dataset = Idle /\ stages = Idle /\ runs = Idle /\ previous = Idle
    /\ sessions = Idle /\ fault = Idle

SpecDates == InitDates /\ [][NextValidate]_vars

\* The mapped fields of the date-format check whose source column is in the table.
MappedDateFields(table, mapping) ==
    SelectSeq(mapping, LAMBDA item : IsDateField(item) /\ InColumns(table, item.value))

\* The format parses at least 80% of the non-null values of the cells.
Reaches80(cells, format) ==
    5 * Cardinality({i \in 1..Len(cells) : notna(cells[i]) /\ ParsesWithFormat(cells[i], format)})
        >= 4 * Cardinality({i \in 1..Len(cells) : notna(cells[i])})

\* The check of this name in a report, or NoneRecord.
CheckOf(report, check_name) ==
    IF \E i \in 1..Len(report.checks) : report.checks[i].name = check_name
    THEN report.checks[CHOOSE i \in 1..Len(report.checks) : report.checks[i].name = check_name]
    ELSE NoneRecord

\* What the check records for a field: warning, failed, or passed with the
\* first of the nine formats that reaches 80%.
FieldAsClaimed(detail, cells) ==
    IF \A i \in 1..Len(cells) : ~notna(cells[i])
    THEN detail.status = "warning"
    ELSE IF \A k \in 1..Len(DATE_FORMATS) : ~Reaches80(cells, DATE_FORMATS[k])
    THEN detail.status = "failed"
    ELSE /\ detail.status = "passed"
         /\ \E k \in 1..Len(DATE_FORMATS) :
               /\ detail.format = DATE_FORMATS[k]
               /\ Reaches80(cells, DATE_FORMATS[k])
               /\ \A j \in 1..(k - 1) : ~Reaches80(cells, DATE_FORMATS[j])

\* C22: the date-format check records, for every mapped date field, the first
\* of the nine formats that parses at least 80% of the column's non-null values;
\* the field is warning for a column without values, failed when no format
\* reaches 80% and passed otherwise, and the check is failed exactly when some
\* field is failed.
C22_FirstFittingFormat ==
    (pc = "validated" /\ MappedDateFields(df, mappings) # <<>>) =>
        /\ CheckOf(result, "date_formats") # NoneRecord
        /\ Len(CheckOf(result, "date_formats").details) = Len(MappedDateFields(df, mappings))
        /\ \A i \in 1..Len(MappedDateFields(df, mappings)) :
              /\ CheckOf(result, "date_formats").details[i].field
                    = MappedDateFields(df, mappings)[i].key
              /\ FieldAsClaimed(CheckOf(result, "date_formats").details[i],
                                ColumnOf(df, MappedDateFields(df, mappings)[i].value))
        /\ CheckOf(result, "date_formats").status = "failed"
              <=> \E i \in 1..Len(CheckOf(result, "date_formats").details) :
                     CheckOf(result, "date_formats").details[i].status = "failed"

\* C22 witness: a column of US-format dates on days after the 12th, which the
\* ISO format does not parse, is passed with %m/%d/%Y recorded.
C22_Witness ==
    /\ pc = "validated"
    /\ template_type = "BankStatement"
    /\ \A r \in 1..MaxDates : df.data[1][r].kind = "date" /\ df.data[1][r].style = "%m/%d/%Y"
                              /\ DayOfMonth(df.data[1][r].v) > 12
    /\ ~Reaches80(df.data[1], "%Y-%m-%d")
    /\ CheckOf(result, "date_formats").status = "passed"
    /\ CheckOf(result, "date_formats").details[1].format = "%m/%d/%Y"


\* The mapped fields of the numeric check whose source column is in the table.
MappedNumericFields(table, mapping) ==
    SelectSeq(mapping, LAMBDA item : IsNumericField(item) /\ InColumns(table, item.value))

\* At least 80% of the non-null values are numbers once currency signs and
\* thousands commas are ignored.
MostlyNumbers(cells) ==
    5 * Cardinality({i \in 1..Len(cells) : notna(cells[i]) /\ ParsesAsCleanedNumber(cells[i])})
        >= 4 * Cardinality({i \in 1..Len(cells) : notna(cells[i])})

\* C23: in the numeric check a value is valid when it is a number once currency
\* signs and thousands commas are ignored; a field with values is passed exactly
\* when at least 80% of its non-null values are valid, and the check is warning
\* exactly when some field failed.
C23_CleanedNumbersValid ==
    (pc = "validated" /\ MappedNumericFields(df, mappings) # <<>>) =>
        /\ CheckOf(result, "numeric_columns") # NoneRecord
        /\ Len(CheckOf(result, "numeric_columns").details)
              = Len(MappedNumericFields(df, mappings))
        /\ \A i \in 1..Len(MappedNumericFields(df, mappings)) :
              CountNotNa(ColumnOf(df, MappedNumericFields(df, mappings)[i].value)) > 0 =>
                 (CheckOf(result, "numeric_columns").details[i].status = "passed"
                     <=> MostlyNumbers(ColumnOf(df, MappedNumericFields(df, mappings)[i].value)))
        /\ CheckOf(result, "numeric_columns").status = "warning"
              <=> \E i \in 1..Len(CheckOf(result, "numeric_columns").details) :
                     CheckOf(result, "numeric_columns").details[i].status = "failed"


\* A required column of the template type has no source column.
RequiredColumnMissing(type, mapping) ==
    \E i \in 1..Len(get_required_columns(type)) :
        \/ get_required_columns(type)[i] \notin Keys(mapping)
        \/ Get(mapping, get_required_columns(type)[i]) = NoneColumn

\* A mapped date field has values and none of the nine formats reaches 80%.
DateFieldUnparsed(table, mapping) ==
    \E i \in 1..Len(MappedDateFields(table, mapping)) :
        /\ CountNotNa(ColumnOf(table, MappedDateFields(table, mapping)[i].value)) > 0
        /\ \A k \in 1..Len(DATE_FORMATS) :
              ~Reaches80(ColumnOf(table, MappedDateFields(table, mapping)[i].value),
                         DATE_FORMATS[k])

\* C24: the numeric, duplicates and null-density checks are never failed, and
\* a report is failed only if a required column is missing, a date field cannot
\* be parsed, or the table has no rows.
C24_OnlyThreeWaysToFail ==
    pc = "validated" =>
        /\ \A i \in 1..Len(result.checks) :
              result.checks[i].name \in {"numeric_columns", "duplicates", "null_values"}
                 => result.checks[i].status # "failed"
        /\ result.status = "failed" =>
              \/ RequiredColumnMissing(template_type, mappings)
              \/ DateFieldUnparsed(df, mappings)
              \/ df.nrows = 0

\* C24 witness: a numeric field failed and rows are duplicated, the two checks
\* are warning, and the report is not failed.
C24_Witness ==
    /\ pc = "validated"
    /\ CheckOf(result, "numeric_columns") # NoneRecord
    /\ CheckOf(result, "numeric_columns").status = "warning"
    /\ CheckOf(result, "duplicates") # NoneRecord
    /\ CheckOf(result, "duplicates").status = "warning"
    /\ result.status = "warning"


\* passed < warning < failed
Severity(status) == CASE status = "passed" -> 0 [] status = "warning" -> 1 [] OTHER -> 2

\* C25: while a report is built its status only escalates: no add_check call
\* takes it from failed to warning or passed, nor from warning to passed, and
\* error_count and warning_count never decrease.
C25_StatusOnlyEscalates ==
    [][/\ Severity(result'.status) >= Severity(result.status)
       /\ result'.error_count >= result.error_count
       /\ result'.warning_count >= result.warning_count]_vars

\* C25 witness: a passed check was added to a failed report, which is still
\* failed.
C25_Witness ==
    /\ pc = "building"
    /\ Len(calls) >= 2
    /\ calls[Len(calls)].status = "passed"
    /\ calls[Len(calls) - 1].status = "failed"
    /\ result.status = "failed"


(***************************************************************************)
(* create_dataset called by several server processes (SpecVersions): each  *)
(* Session queries the latest version of the key, then inserts its row and *)
(* commits.  The unique constraint uq_dataset_version rejects a row whose  *)
(* (template_type, entity, period_start, version) is already stored; as in *)
(* SQL, rows with a NULL in these columns never conflict.                  *)
(***************************************************************************)
\* (entity, period_start) of the datasets created: the pipeline's NULLs, or an
\* entity and the first day of a period.
DatasetKeys ==
    {[entity |-> NoneValue, period_start |-> NoneValue],
     [entity |-> "ACME", period_start |-> "2025-01-01"]}

SameKey(row, data) ==
    /\ row.template_type = data.template_type
    /\ row.entity = data.entity
    /\ row.period_start = data.period_start

\* The query of lines 58-68: the highest version stored for the key, NoneId
\* when there is none.
LatestVersion(database, data) ==
    IF \E i \in 1..Len(database.datasets) : SameKey(database.datasets[i], data)
    THEN MaxOf({database.datasets[i].version :
                   i \in {j \in 1..Len(database.datasets) : SameKey(database.datasets[j], data)}})
    ELSE NoneId

\* lines 40-48 and 70-71: the row, version 1 unless a version was loaded
VersionedRow(database, data, loaded) ==
    [id |-> Len(database.datasets) + 1,
     template_type |-> data.template_type,
     entity |-> data.entity,
     period_start |-> data.period_start,
     version |-> IF loaded # NoneId THEN loaded + 1 ELSE 1]

\* uq_dataset_version (models/dataset.py lines 70-72)
ViolatesUnique(database, row) ==
    /\ row.entity # NoneValue
    /\ row.period_start # NoneValue
    /\ \E i \in 1..Len(database.datasets) :
          SameKey(database.datasets[i], row) /\ database.datasets[i].version = row.version

InitVersions ==
    /\ pc = "serving"
    /\ db = EmptyDb
    /\ sessions \in [Workers -> {[pc |-> "query", loaded |-> NoneId,
                                  data |-> [template_type |-> t, entity |-> k.entity,
                                            period_start |-> k.period_start]] :
                                     t \in {"BankStatement"}, k \in DatasetKeys}]
    /\ analysis = Idle /\ detection = Idle /\ source_columns = Idle
    /\ template_type = Idle /\ mappings = Idle
    /\ result = Idle /\ calls = Idle /\ file = Idle /\ df = Idle
    /\ processing_results = Idle /\ dataset = Idle /\ stages = Idle
    /\ runs = Idle /\ previous = Idle /\ fault = Idle

\* existing = db.query(Dataset).filter(...).order_by(Dataset.version.desc()).first()
QueryVersion(w) ==
    /\ sessions[w].pc = "query"
    /\ sessions' = [sessions EXCEPT ![w].pc = "insert",
                                    ![w].loaded = LatestVersion(db, sessions[w].data)]
    /\ UNCHANGED <<pc, analysis, detection, source_columns, template_type, mappings, result,
                   calls, file, df, db, processing_results, dataset, stages, runs, previous,
                   fault>>

\* db.add(dataset); db.commit(): the row is stored, or the constraint raises.
InsertDataset(w) ==
    /\ sessions[w].pc = "insert"
    /\ IF ViolatesUnique(db, VersionedRow(db, sessions[w].data, sessions[w].loaded))
       THEN /\ sessions' = [sessions EXCEPT ![w].pc = "IntegrityError"]
            /\ UNCHANGED db
       ELSE /\ db' = [db EXCEPT !.datasets =
                        Append(@, VersionedRow(db, sessions[w].data, sessions[w].loaded))]
            /\ sessions' = [sessions EXCEPT ![w].pc = "done"]
    /\ UNCHANGED <<pc, analysis, detection, source_columns, template_type, mappings, result,
                   calls, file, df, processing_results, dataset, stages, runs, previous,
                   fault>>

NextVersions == \E w \in Workers : QueryVersion(w) \/ InsertDataset(w)

SpecVersions == InitVersions /\ [][NextVersions]_vars

\* C26: no two datasets with the same (template_type, entity, period_start),
\* both NULL included, share a version, whether they were created one after the
\* other or concurrently.
C26_VersionsUnique ==
    \A i, j \in 1..Len(db.datasets) :
        (i # j /\ SameKey(db.datasets[i], db.datasets[j]))
            => db.datasets[i].version # db.datasets[j].version


\* C27: for every analysis the detector can be given, the AR_Aging score never
\* strictly exceeds the AP_OpenItems score, and the detected template is never
\* AR_Aging.
C27_ArAgingNeverWins ==
    pc = "detected" =>
        /\ ~DLess(Scores(analysis)["AP_OpenItems"], Scores(analysis)["AR_Aging"])
        /\ detection.template_type # "AR_Aging"

\* Aging buckets were found, both scores are equal and the best, and
\* AP_OpenItems is returned.
C27_Witness ==
    /\ pc = "detected"
    /\ analysis.has_aging_buckets
    /\ ~DLess(Scores(analysis)["AR_Aging"], Scores(analysis)["AP_OpenItems"])
    /\ detection.template_type = "AP_OpenItems"


\* C28: a table with rows and at least one date column has a BankStatement
\* score of at least 0.3 and is never left undetected; a table that is left
\* undetected has no date column.
C28_DateColumnAlwaysClassified ==
    pc = "detected" =>
        /\ (analysis.num_rows > 0 /\ Len(analysis.date_columns) >= 1)
              => /\ ~DLess(Scores(analysis)["BankStatement"], ConfidenceThreshold)
                 /\ detection.template_type # NoneValue
        /\ detection.template_type = NoneValue => Len(analysis.date_columns) = 0

\* A date column is all the evidence there is: the BankStatement score is
\* exactly the threshold and the table is detected as a bank statement.
C28_Witness ==
    /\ pc = "detected"
    /\ analysis.num_rows > 0
    /\ Len(analysis.date_columns) >= 1
    /\ ~DLess(ConfidenceThreshold, Scores(analysis)["BankStatement"])
    /\ detection.template_type = "BankStatement"


\* The number of the three index lists that hold column index idx.
TagCount(a, idx) ==
    (IF InSeq(idx, a.date_columns) THEN 1 ELSE 0)
    + (IF InSeq(idx, a.numeric_columns) THEN 1 ELSE 0)
    + (IF InSeq(idx, a.text_columns) THEN 1 ELSE 0)

PipelineReportAsClaimed(report) ==
    /\ CheckOf(report, "required_columns") # NoneRecord
    /\ CheckOf(report, "required_columns").status = "passed"
    /\ CheckOf(report, "row_count") # NoneRecord
    /\ CheckOf(report, "row_count").status # "failed"
    /\ report.status = "failed" =>
          /\ CheckOf(report, "date_formats") # NoneRecord
          /\ CheckOf(report, "date_formats").status = "failed"

\* C30: in every pipeline run that reaches DQ validation the required_columns
\* check passed and the row_count check did not fail, so a report whose status
\* is failed has a failed date_formats check.
C30_PipelineFailureIsDateFormats ==
    processing_results.dq_validation # NoneRecord =>
        PipelineReportAsClaimed(processing_results.dq_validation)

\* A run that stored its dataset with a failed report: the date formats failed.
C30_Witness ==
    /\ pc = "done"
    /\ processing_results.success
    /\ processing_results.dq_validation # NoneRecord
    /\ processing_results.dq_validation.status = "failed"
    /\ CheckOf(processing_results.dq_validation, "date_formats").status = "failed"

====
